---- MODULE Spec2Model ----
(***************************************************************************)
(* AutomaticWriter: the scheduler-executor edge function                   *)
(* (supabase/functions/scheduler-executor/index.ts).                       *)
(*                                                                         *)
(* One invocation of the Deno.serve handler loads the AI config and the    *)
(* active schedules, and for each schedule in turn decides whether it is   *)
(* due (shouldExecuteNow, or forceExecute), then runs executeSchedule:     *)
(* selectUnusedKeyword -> generateTrendTitle -> generateArticle ->         *)
(* publishToWordPress -> insert into execution_history.                    *)
(*                                                                         *)
(* Time is counted in minutes since local midnight of day 0.  Database     *)
(* reads answer from the tables; LLM calls, WordPress requests and the     *)
(* history insert may fail, as chosen by the environment.                  *)
(*                                                                         *)
(* Beside the handler, the browser-side services WordPressService          *)
(* (src/services/supabaseSchedulerService.ts) and AIService                *)
(* (src/services/aiService.ts, src/services/realTrendAnalysisService.ts)   *)
(* are modelled as objects whose methods are called one at a time.         *)
(***************************************************************************)
EXTENDS Integers, Sequences, FiniteSets, TLC

VARIABLES
    clock,              \* the wall clock (new Date()), in minutes
    schedule_settings,  \* table schedule_settings (joined with wordpress_configs)
    execution_history,  \* table execution_history, in insertion order
    pc,                 \* position of the running invocation
    body,               \* request body of the current/last invocation
    forceExecute,       \* handler local
    aiConfig,           \* handler local: provider of the loaded AI config
    schedules,          \* handler local: rows the schedule query returned
    now,                \* handler local: new Date() of line 95
    currentTime,        \* handler local: "HH:MM" string of now
    idx,                \* position of the for-loop in schedules
    keyword,            \* executeSchedule local
    results,            \* handler local
    state,              \* per schedule: its state in this invocation
    calls,              \* per schedule: calls and requests made in this invocation
    histLen0,           \* length of execution_history when the invocation began
    response,           \* the HTTP response of the last finished invocation
    other,              \* the locals of a second invocation of the handler
    wpService,          \* a WordPressService object and the site it talks to
    aiService,          \* an AIService object and the provider it talks to
    generator,          \* the AIGenerator component and the articles of the store
    gemini,             \* one call of AIService.callGemini through the relay
    netlify,            \* the Netlify scheduler function and what it has posted
    store               \* the WordPress configs of the store, their tables and
                        \* the saves in flight

\* the locals of one invocation of the handler
locals == <<pc, body, forceExecute, aiConfig, schedules, now, currentTime, idx,
            keyword, results, state, calls, histLen0, response>>

\* the state of the browser-side services
services == <<wpService, aiService>>

\* the state of the browser-side components and of the other entry points
clients == <<generator, gemini, netlify, store>>

vars == <<clock, schedule_settings, execution_history, locals, other, services,
          clients>>

\* the scheduler-executor function, its tables and the services
backend == <<clock, schedule_settings, execution_history, locals, other,
             services>>

\* what an action of one component leaves alone
besidesGenerator == <<backend, gemini, netlify, store>>
besidesGemini == <<backend, generator, netlify, store>>
besidesNetlify == <<backend, generator, gemini, store>>
besidesStore == <<backend, generator, gemini, netlify>>

----------------------------------------------------------------------------
(* Bounds of the model *)

\* an invocation starts only while execution_history holds fewer rows
MaxHist == 3
\* largest advance of the clock (minutes) while an invocation is running
MaxRunDelay == 1

\* The instants (minutes since midnight of day 0) at which requests arrive and
\* steps complete.  09:05 and 09:06 of day 0 and, outside every window, 13:05:
Instants == {545, 546, 785}

\* For the due-time evaluation, by the frequency of schedule s1: instants
\* around 09:00 of day 1 (08:54 .. 09:06), executions of day 0 placed on and
\* next to the frequency's threshold, and the day one nominal period later.
TimeInstants(f) ==
    IF f = "daily" THEN {545, 605, 606, 785, 1974, 1975, 1985, 1986}
    ELSE IF f = "weekly" THEN {545, 1265, 1266, 1985, 10625}
    ELSE IF f = "biweekly" THEN {545, 605, 10625, 19265}
    ELSE {545, 605, 19265, 42305}

Frequencies == {"daily", "weekly", "biweekly", "monthly"}

ScheduleIds == {"s1", "s2", "s3"}

----------------------------------------------------------------------------
(* Strings and numbers as JavaScript handles them *)

\* the value NaN of Number()
NaN == -1000000

DigitChars == <<"0", "1", "2", "3", "4", "5", "6", "7", "8", "9">>

IsDigit(c) == \E i \in 1..10 : DigitChars[i] = c

DigitValue(c) == (CHOOSE i \in 1..10 : DigitChars[i] = c) - 1

\* n.toString().padStart(2, '0') for 0 <= n <= 99
padStart2(n) ==
    IF n < 10 THEN <<"0", DigitChars[n + 1]>>
    ELSE <<DigitChars[(n \div 10) + 1], DigitChars[(n % 10) + 1]>>

\* Date.getHours / Date.getMinutes
getHours(t) == (t \div 60) % 24
getMinutes(t) == t % 60

\* `${hh}:${mm}` of line 96
FormatTime(t) == padStart2(getHours(t)) \o <<":">> \o padStart2(getMinutes(t))

\* s.split(':') : the fields between the colons
RECURSIVE split(_)
split(s) ==
    IF \A i \in 1..Len(s) : s[i] # ":" THEN <<s>>
    ELSE LET p == CHOOSE i \in 1..Len(s) :
                     s[i] = ":" /\ \A j \in 1..(i - 1) : s[j] # ":"
         IN <<SubSeq(s, 1, p - 1)>> \o split(SubSeq(s, p + 1, Len(s)))

RECURSIVE DecimalValue(_)
DecimalValue(s) ==
    IF Len(s) = 0 THEN 0
    ELSE 10 * DecimalValue(SubSeq(s, 1, Len(s) - 1)) + DigitValue(s[Len(s)])

\* Number(s): 0 for the empty string, NaN for a string that is no numeral
Number(s) ==
    IF \A i \in 1..Len(s) : IsDigit(s[i]) THEN DecimalValue(s) ELSE NaN

\* element i of fields.map(Number); a missing element is undefined
NumberAt(fields, i) == IF i <= Len(fields) THEN Number(fields[i]) ELSE NaN

Mul(a, b) == IF a = NaN \/ b = NaN THEN NaN ELSE a * b
Add(a, b) == IF a = NaN \/ b = NaN THEN NaN ELSE a + b
Sub(a, b) == IF a = NaN \/ b = NaN THEN NaN ELSE a - b
MathAbs(a) == IF a = NaN THEN NaN ELSE IF a < 0 THEN 0 - a ELSE a
\* a > b is false when either side is NaN
Greater(a, b) == a # NaN /\ b # NaN /\ a > b

RECURSIVE skipBlanks(_)
skipBlanks(s) == IF s # <<>> /\ s[1] = " " THEN skipBlanks(Tail(s)) ELSE s

RECURSIVE leadingDigits(_)
leadingDigits(s) ==
    IF s # <<>> /\ IsDigit(s[1]) THEN <<s[1]>> \o leadingDigits(Tail(s))
    ELSE <<>>

\* parseInt(s): the numeral s begins with, after leading blanks; NaN when
\* there is none
parseInt(s) ==
    LET digits == leadingDigits(skipBlanks(s))
    IN IF digits = <<>> THEN NaN ELSE DecimalValue(digits)

----------------------------------------------------------------------------
(* The request body *)

NoBody == ""
\* JSON.stringify({ forceExecute }) of triggerScheduler
TriggerBody(force) ==
    IF force THEN "{\"forceExecute\":true}" ELSE "{\"forceExecute\":false}"
BadBody == "not json"

Bodies == {NoBody, TriggerBody(TRUE), TriggerBody(FALSE), BadBody}

\* variant: a body that is no JSON is read as {}
ParseThrowsNever(b) == FALSE

\* JSON.parse(body) throws on text that is no JSON
ParseThrows(b) == b = BadBody

\* body ? JSON.parse(body) : {} ; the value of the forceExecute property
ParseParams(b) ==
    IF b = TriggerBody(TRUE) THEN [forceExecute |-> "true"]
    ELSE IF b = TriggerBody(FALSE) THEN [forceExecute |-> "false"]
    ELSE [forceExecute |-> "undefined"]

\* variant: the flag of the body is never honoured
ForceExecuteOfIgnored(b) == FALSE

\* params.forceExecute === true
ForceExecuteOf(b) == ParseParams(b).forceExecute = "true"

----------------------------------------------------------------------------
(* shouldExecuteNow *)

\* 1000 * 60 * 60 of line 181, in the model's unit of time (one minute)
UnitsPerHour == 60

\* Math.abs(currentMinutes - scheduleMinutes), lines 155-160
WindowDiff(scheduleTime, curTime) ==
    LET sf == split(scheduleTime)
        cf == split(curTime)
        scheduleMinutes == Add(Mul(NumberAt(sf, 1), 60), NumberAt(sf, 2))
        currentMinutes == Add(Mul(NumberAt(cf, 1), 60), NumberAt(cf, 2))
    IN MathAbs(Sub(currentMinutes, scheduleMinutes))

\* variant: the window excludes its boundary (diff >= 5)
OutsideWindowExclusive(diff) == Greater(diff, 4)

\* if (diff > 5) return false
OutsideWindow(diff) == Greater(diff, 5)

\* the rows of one schedule, .eq('schedule_id', scheduleId)
RowsOf(scheduleId, hist) == SelectSeq(hist, LAMBDA h : h.schedule_id = scheduleId)

\* variant: the rows are ordered ascending, the oldest row is read
FirstExecutedAt(scheduleId, hist) ==
    LET rows == RowsOf(scheduleId, hist)
    IN CHOOSE t \in {rows[i].executed_at : i \in 1..Len(rows)} :
           \A i \in 1..Len(rows) : rows[i].executed_at >= t

\* .order('executed_at', { ascending: false }).limit(1).maybeSingle():
\* the latest executed_at of the schedule (only asked when a row exists)
LastExecutedAt(scheduleId, hist) ==
    LET rows == RowsOf(scheduleId, hist)
    IN CHOOSE t \in {rows[i].executed_at : i \in 1..Len(rows)} :
           \A i \in 1..Len(rows) : rows[i].executed_at <= t

\* variant: the thresholds are the nominal intervals (24 hours, 7, 14, 30 days)
FrequencyDueNominal(frequency, elapsed) ==
    IF frequency = "daily" /\ elapsed >= 24 * UnitsPerHour THEN TRUE
    ELSE IF frequency = "weekly" /\ elapsed >= 24 * 7 * UnitsPerHour THEN TRUE
    ELSE IF frequency = "biweekly" /\ elapsed >= 24 * 14 * UnitsPerHour THEN TRUE
    ELSE IF frequency = "monthly" /\ elapsed >= 24 * 30 * UnitsPerHour THEN TRUE
    ELSE FALSE

\* the frequency chain of lines 184-194; hoursSinceLastExecution is
\* elapsed / UnitsPerHour, so hours >= n/d is elapsed * d >= n * UnitsPerHour
\* (24 * 6.5 is 24 * 13 / 2)
FrequencyDue(frequency, elapsed) ==
    IF frequency = "daily" /\ elapsed >= 23 * UnitsPerHour THEN TRUE
    ELSE IF frequency = "weekly" /\ elapsed * 2 >= 24 * 13 * UnitsPerHour THEN TRUE
    ELSE IF frequency = "biweekly" /\ elapsed >= 24 * 13 * UnitsPerHour THEN TRUE
    ELSE IF frequency = "monthly" /\ elapsed >= 24 * 29 * UnitsPerHour THEN TRUE
    ELSE FALSE

\* variant: a schedule that another invocation is executing is not due
shouldExecuteNowLocked(scheduleTime, curTime, frequency, scheduleId, hist, t) ==
    IF /\ other.pc \in {"select", "title", "article", "publish", "insert"}
       /\ other.schedules[other.idx].id = scheduleId
    THEN FALSE
    ELSE IF OutsideWindow(WindowDiff(scheduleTime, curTime)) THEN FALSE
    ELSE IF Len(RowsOf(scheduleId, hist)) = 0 THEN TRUE
    ELSE FrequencyDue(frequency, t - LastExecutedAt(scheduleId, hist))

\* shouldExecuteNow(scheduleTime, currentTime, frequency, scheduleId, supabase),
\* with the table and the clock it reads
shouldExecuteNow(scheduleTime, curTime, frequency, scheduleId, hist, t) ==
    IF OutsideWindow(WindowDiff(scheduleTime, curTime)) THEN FALSE
    ELSE IF Len(RowsOf(scheduleId, hist)) = 0 THEN TRUE
    ELSE FrequencyDue(frequency, t - LastExecutedAt(scheduleId, hist))

\* whether shouldExecuteNow gets as far as the execution_history query
ReadsHistory(scheduleTime, curTime) ==
    ~OutsideWindow(WindowDiff(scheduleTime, curTime))

----------------------------------------------------------------------------
(* selectUnusedKeyword *)

Undefined == "<undefined>"

\* variant: the keyword is not checked
NoKeywordCheck(k) == FALSE

\* !keyword
IsFalsy(k) == k = Undefined \/ k = ""

Elements(seq) == {seq[i] : i \in 1..Len(seq)}

\* allKeywords.filter(k => !usedKeywords.has(k))
availableKeywords(scheduleId, allKeywords, hist) ==
    LET rows == RowsOf(scheduleId, hist)
        usedKeywords == {rows[i].keyword_used : i \in 1..Len(rows)}
    IN SelectSeq(allKeywords, LAMBDA k : k \notin usedKeywords)

\* list[Math.floor(Math.random() * list.length)]: any element; undefined for []
RandomPick(list) == IF Len(list) = 0 THEN {Undefined} ELSE Elements(list)

\* variant: the history is ignored and any keyword of the pool is returned
selectUnusedKeywordAny(scheduleId, allKeywords, hist) == RandomPick(allKeywords)

\* variant: an exhausted pool yields no keyword instead of a reset
selectUnusedKeywordNoReset(scheduleId, allKeywords, hist) ==
    LET available == availableKeywords(scheduleId, allKeywords, hist)
    IN IF Len(available) = 0 THEN {Undefined} ELSE RandomPick(available)

\* the values selectUnusedKeyword can return
selectUnusedKeyword(scheduleId, allKeywords, hist) ==
    LET available == availableKeywords(scheduleId, allKeywords, hist)
    IN IF Len(available) = 0 THEN RandomPick(allKeywords)
       ELSE RandomPick(available)

----------------------------------------------------------------------------
(* The handler *)

NoAIConfig == "<none>"
SupportedProviders == {"gemini", "openai", "claude"}
AIConfigs == {NoAIConfig, "gemini", "openai", "claude", "other"}
\* the due-time evaluation does not look at the AI config
TimeAIConfigs == {NoAIConfig, "gemini"}

LLMOutcomes == {"ok", "error"}
PublishOutcomes == {"created", "http_error"}

\* variant: the query without the is_active filter
ActiveSchedulesUnfiltered(table) == table

\* .from('schedule_settings').select(...).eq('is_active', true)
ActiveSchedules(table) == SelectSeq(table, LAMBDA r : r.is_active)

\* variant: executeSchedule is called outside any try of its own
CatchOfOuterOnly(place) == "handler"

\* which catch clause receives an exception thrown at a place of the handler:
\* the try of lines 111-121 around executeSchedule, else the outer one (137-143)
CatchOf(place) == IF place = "executeSchedule" THEN "schedule" ELSE "handler"

\* per schedule: calls of shouldExecuteNow, reads of execution_history, calls of
\* selectUnusedKeyword, generateTrendTitle and generateArticle, LLM requests,
\* generateArticle calls that returned, create-post requests and those
\* answered with success, history inserts and those answered with an error
NoCalls ==
    [evaluate |-> 0, read |-> 0, select |-> 0, title |-> 0, article |-> 0,
     llm |-> 0, articleOk |-> 0, wp |-> 0, wpCreated |-> 0, insert |-> 0,
     insertError |-> 0, categories |-> <<>>]

NoResponse ==
    [kind |-> "none", status |-> 0, success |-> FALSE, executed |-> 0,
     results |-> <<>>]

ErrorResponse(status) ==
    [kind |-> "error", status |-> status, success |-> FALSE, executed |-> 0,
     results |-> <<>>]

\* the response of lines 86-89
NoSchedulesResponse ==
    [kind |-> "no_schedules", status |-> 200, success |-> TRUE, executed |-> 0,
     results |-> <<>>]

\* the response of lines 127-135
RunResponse(res) ==
    [kind |-> "run", status |-> 200, success |-> TRUE, executed |-> Len(res),
     results |-> res]

\* the entry executeSchedule returns (lines 241-248)
SuccessEntry(wpId, k) ==
    [wordpress_config_id |-> wpId, success |-> TRUE, keyword |-> k, error |-> ""]

\* the entry the catch clause pushes (lines 116-120)
ErrorEntry(wpId, msg) ==
    [wordpress_config_id |-> wpId, success |-> FALSE, keyword |-> "", error |-> msg]

\* variant: the row records the first keyword of the pool, not the selected one
HistoryRowFirstKeyword(s, k, t) ==
    [schedule_id |-> s.id, wordpress_config_id |-> s.wordpress_config_id,
     executed_at |-> t, keyword_used |-> s.target_keywords[1], status |-> "success"]

\* the row of lines 231-239
HistoryRow(s, k, t) ==
    [schedule_id |-> s.id, wordpress_config_id |-> s.wordpress_config_id,
     executed_at |-> t, keyword_used |-> k, status |-> "success"]

\* variant: the insert replaces the schedule's latest row (an upsert)
upsert(hist, row) ==
    IF \E i \in 1..Len(hist) : hist[i].schedule_id = row.schedule_id
    THEN LET p == CHOOSE i \in 1..Len(hist) :
                     /\ hist[i].schedule_id = row.schedule_id
                     /\ \A j \in (i + 1)..Len(hist) :
                            hist[j].schedule_id # row.schedule_id
         IN [hist EXCEPT ![p] = row]
    ELSE Append(hist, row)

\* supabase.from('execution_history').insert(row)
insert(hist, row) == Append(hist, row)

Schedule(id, wpId, active, frequency, time, keywords) ==
    [id |-> id, wordpress_config_id |-> wpId, is_active |-> active,
     frequency |-> frequency, time |-> time, target_keywords |-> keywords]

\* the tables and an idle handler: schedule s1 has one of the given
\* frequencies, keyword pools and times
InitSchedules(freqs, pools, times) ==
    /\ clock = 545
    /\ \E f \in freqs, kws \in pools, time \in times :
         schedule_settings =
            << Schedule("s1", "w1", TRUE, f, time, kws),
               Schedule("s2", "w2", FALSE, "daily", <<"0", "9", ":", "0", "0">>, <<"A">>),
               Schedule("s3", "w3", TRUE, "daily", <<"0", "9", ":", "0", "5">>, <<"C">>) >>
    /\ execution_history = <<>>
    /\ pc = "idle"
    /\ body = NoBody
    /\ forceExecute = FALSE
    /\ aiConfig = NoAIConfig
    /\ schedules = <<>>
    /\ now = 0
    /\ currentTime = <<>>
    /\ idx = 1
    /\ keyword = Undefined
    /\ results = <<>>
    /\ state = [s \in ScheduleIds |-> "PENDING"]
    /\ calls = [s \in ScheduleIds |-> NoCalls]
    /\ histLen0 = 0
    /\ response = NoResponse

InitWith(freqs, pools) == InitSchedules(freqs, pools, {<<"0", "9", ":", "0", "0">>})

\* time passes while the invocation waits for a request to complete
Elapse(t) ==
    /\ pc # "idle"
    /\ t > clock
    /\ t - clock <= MaxRunDelay
    /\ clock' = t
    /\ UNCHANGED <<other, services, clients>>
    /\ UNCHANGED <<schedule_settings, execution_history, pc, body, forceExecute,
                   aiConfig, schedules, now, currentTime, idx, keyword, results,
                   state, calls, histLen0, response>>

\* Deno.serve handler, lines 43-96: a request with body b arrives at time t,
\* while the latest ai_configs row is ai and the schedule query fails or not
Handler(b, ai, schedError, t) ==
    /\ pc = "idle"
    /\ Len(execution_history) < MaxHist
    /\ t >= clock
    /\ clock' = t
    /\ body' = b
    /\ idx' = 1
    /\ keyword' = Undefined
    /\ results' = <<>>
    /\ state' = [s \in ScheduleIds |-> "PENDING"]
    /\ calls' = [s \in ScheduleIds |-> NoCalls]
    /\ histLen0' = Len(execution_history)
    /\ IF ParseThrows(b)
       THEN /\ response' = ErrorResponse(500)
            /\ forceExecute' = FALSE /\ aiConfig' = NoAIConfig /\ schedules' = <<>>
            /\ now' = 0 /\ currentTime' = <<>> /\ pc' = "idle"
       ELSE IF ai = NoAIConfig
       THEN /\ response' = ErrorResponse(400)
            /\ forceExecute' = ForceExecuteOf(b)
            /\ aiConfig' = NoAIConfig /\ schedules' = <<>>
            /\ now' = 0 /\ currentTime' = <<>> /\ pc' = "idle"
       ELSE IF schedError \/ Len(ActiveSchedules(schedule_settings)) = 0
       THEN /\ response' = NoSchedulesResponse
            /\ forceExecute' = ForceExecuteOf(b)
            /\ aiConfig' = ai /\ schedules' = <<>>
            /\ now' = 0 /\ currentTime' = <<>> /\ pc' = "idle"
       ELSE /\ response' = NoResponse
            /\ forceExecute' = ForceExecuteOf(b)
            /\ aiConfig' = ai
            /\ schedules' = ActiveSchedules(schedule_settings)
            /\ now' = t
            /\ currentTime' = FormatTime(t)
            /\ pc' = "loop"
    /\ UNCHANGED <<other, services, clients>>
    /\ UNCHANGED <<schedule_settings, execution_history>>

\* lines 99-108 and 122-124: the next schedule of the loop is evaluated
CheckSchedule ==
    /\ pc = "loop"
    /\ idx <= Len(schedules)
    /\ LET s == schedules[idx]
           shouldExecute ==
               forceExecute \/ shouldExecuteNow(s.time, currentTime, s.frequency,
                                                s.id, execution_history, clock)
           reads == ~forceExecute /\ ReadsHistory(s.time, currentTime)
       IN /\ calls' = [calls EXCEPT
                         ![s.id].evaluate = @ + (IF forceExecute THEN 0 ELSE 1),
                         ![s.id].read = @ + (IF reads THEN 1 ELSE 0)]
          /\ IF shouldExecute
             THEN /\ state' = [state EXCEPT ![s.id] = "DUE"]
                  /\ pc' = "select"
                  /\ idx' = idx
             ELSE /\ state' = [state EXCEPT ![s.id] = "SKIPPED"]
                  /\ pc' = "loop"
                  /\ idx' = idx + 1
    /\ UNCHANGED <<other, services, clients>>
    /\ UNCHANGED <<clock, schedule_settings, execution_history, body, forceExecute,
                   aiConfig, schedules, now, currentTime, keyword, results,
                   histLen0, response>>

\* variant: a failed schedule is taken up again by the loop
ThrowRetry(msg) ==
    LET s == schedules[idx]
    IN /\ results' = Append(results, ErrorEntry(s.wordpress_config_id, msg))
       /\ state' = [state EXCEPT ![s.id] = "FAILED"]
       /\ idx' = idx
       /\ pc' = "loop"
       /\ response' = response

\* an exception thrown inside executeSchedule for schedules[idx]
Throw(msg) ==
    LET s == schedules[idx]
    IN IF CatchOf("executeSchedule") = "schedule"
       THEN /\ results' = Append(results, ErrorEntry(s.wordpress_config_id, msg))
            /\ state' = [state EXCEPT ![s.id] = "FAILED"]
            /\ idx' = idx + 1
            /\ pc' = "loop"
            /\ response' = response
       ELSE /\ results' = results
            /\ state' = [state EXCEPT ![s.id] = "FAILED"]
            /\ idx' = idx
            /\ pc' = "idle"
            /\ response' = ErrorResponse(500)

\* executeSchedule, lines 204-211
SelectKeyword ==
    /\ pc = "select"
    /\ LET s == schedules[idx]
       IN \E k \in selectUnusedKeyword(s.id, s.target_keywords, execution_history) :
            /\ keyword' = k
            /\ calls' = [calls EXCEPT ![s.id].select = @ + 1, ![s.id].read = @ + 1]
            /\ IF IsFalsy(k)
               THEN Throw("no keyword")
               ELSE /\ state' = [state EXCEPT ![s.id] = "SELECTED"]
                    /\ pc' = "title"
                    /\ UNCHANGED <<results, idx, response>>
    /\ UNCHANGED <<other, services, clients>>
    /\ UNCHANGED <<clock, schedule_settings, execution_history, body, forceExecute,
                   aiConfig, schedules, now, currentTime, histLen0>>

\* executeSchedule line 214: generateTrendTitle (lines 277-332)
GenerateTrendTitle(outcome) ==
    /\ pc = "title"
    /\ LET s == schedules[idx]
       IN IF aiConfig \notin SupportedProviders
          THEN /\ outcome = "error"
               /\ calls' = [calls EXCEPT ![s.id].title = @ + 1]
               /\ Throw("Unsupported AI provider")
          ELSE /\ calls' = [calls EXCEPT ![s.id].title = @ + 1, ![s.id].llm = @ + 1]
               /\ IF outcome = "ok"
                  THEN /\ pc' = "article"
                       /\ UNCHANGED <<results, state, idx, response>>
                  ELSE Throw("LLM error")
    /\ UNCHANGED <<other, services, clients>>
    /\ UNCHANGED <<clock, schedule_settings, execution_history, body, forceExecute,
                   aiConfig, schedules, now, currentTime, keyword, histLen0>>

\* variant: the answer of the LLM is not checked before publishing
GenerateArticleUnchecked(outcome) ==
    /\ pc = "article"
    /\ LET s == schedules[idx]
       IN /\ calls' = [calls EXCEPT
                         ![s.id].article = @ + 1,
                         ![s.id].llm = @ + 1,
                         ![s.id].articleOk = @ + (IF outcome = "ok" THEN 1 ELSE 0)]
          /\ state' = [state EXCEPT ![s.id] = "GENERATED"]
          /\ pc' = "publish"
    /\ UNCHANGED <<clock, schedule_settings, execution_history, body, forceExecute,
                   aiConfig, schedules, now, currentTime, idx, keyword, results,
                   histLen0, response, other, services,
                   clients>>

\* executeSchedule line 218: generateArticle (lines 335-390)
GenerateArticle(outcome) ==
    /\ pc = "article"
    /\ LET s == schedules[idx]
       IN /\ calls' = [calls EXCEPT
                         ![s.id].article = @ + 1,
                         ![s.id].llm = @ + 1,
                         ![s.id].articleOk = @ + (IF outcome = "ok" THEN 1 ELSE 0)]
          /\ IF outcome = "ok"
             THEN /\ state' = [state EXCEPT ![s.id] = "GENERATED"]
                  /\ pc' = "publish"
                  /\ UNCHANGED <<results, idx, response>>
             ELSE Throw("LLM error")
    /\ UNCHANGED <<other, services, clients>>
    /\ UNCHANGED <<clock, schedule_settings, execution_history, body, forceExecute,
                   aiConfig, schedules, now, currentTime, keyword, histLen0>>

\* the category of the joined wordpress_configs row of a schedule
CategoryOf(wpId) ==
    CASE wpId = "w1" -> <<"5">>
      [] wpId = "w2" -> <<>>
      [] wpId = "w3" -> <<"n", "e", "w", "s">>

\* categories: config.category ? [parseInt(config.category)] : []
\* (publishToWordPress, line 411)
PostCategories(category) ==
    IF category = <<>> THEN <<>> ELSE <<parseInt(category)>>

\* the ids the site's category lookup returned to publishToWordPress, which
\* sends no request but the create-post request of lines 402-413
LookedUpIds(wpId) == {}

\* executeSchedule lines 222-228: publishToWordPress (lines 393-423)
PublishToWordPress(outcome) ==
    /\ pc = "publish"
    /\ LET s == schedules[idx]
       IN /\ calls' = [calls EXCEPT
                         ![s.id].wp = @ + 1,
                         ![s.id].categories =
                             PostCategories(CategoryOf(s.wordpress_config_id)),
                         ![s.id].wpCreated = @ + (IF outcome = "created" THEN 1 ELSE 0)]
          /\ IF outcome = "created"
             THEN /\ state' = [state EXCEPT ![s.id] = "PUBLISHED"]
                  /\ pc' = "insert"
                  /\ UNCHANGED <<results, idx, response>>
             ELSE Throw("WordPress API error")
    /\ UNCHANGED <<other, services, clients>>
    /\ UNCHANGED <<clock, schedule_settings, execution_history, body, forceExecute,
                   aiConfig, schedules, now, currentTime, keyword, histLen0>>

\* executeSchedule lines 231-248 and handler line 113: the history insert, whose
\* error the code does not look at, and the success entry
InsertHistory(ok) ==
    /\ pc = "insert"
    /\ LET s == schedules[idx]
       IN /\ execution_history' =
                IF ok THEN insert(execution_history, HistoryRow(s, keyword, clock))
                ELSE execution_history
          /\ calls' = [calls EXCEPT ![s.id].insert = @ + 1,
                                    ![s.id].insertError = @ + (IF ok THEN 0 ELSE 1)]
          /\ results' = Append(results, SuccessEntry(s.wordpress_config_id, keyword))
          /\ state' = [state EXCEPT ![s.id] = "DONE"]
          /\ idx' = idx + 1
          /\ pc' = "loop"
    /\ UNCHANGED <<other, services, clients>>
    /\ UNCHANGED <<clock, schedule_settings, body, forceExecute, aiConfig, schedules,
                   now, currentTime, keyword, histLen0, response>>

\* lines 127-135: the loop is over
Respond ==
    /\ pc = "loop"
    /\ idx > Len(schedules)
    /\ response' = RunResponse(results)
    /\ pc' = "idle"
    /\ UNCHANGED <<other, services, clients>>
    /\ UNCHANGED <<clock, schedule_settings, execution_history, body, forceExecute,
                   aiConfig, schedules, now, currentTime, idx, keyword, results,
                   state, calls, histLen0>>

----------------------------------------------------------------------------
(* Two invocations of the handler *)

\* the locals of an invocation that has not begun
IdleInvocation ==
    [pc |-> "idle", body |-> NoBody, forceExecute |-> FALSE,
     aiConfig |-> NoAIConfig, schedules |-> <<>>, now |-> 0, currentTime |-> <<>>,
     idx |-> 1, keyword |-> Undefined, results |-> <<>>,
     state |-> [s \in ScheduleIds |-> "PENDING"],
     calls |-> [s \in ScheduleIds |-> NoCalls],
     histLen0 |-> 0, response |-> NoResponse]

\* Deno.serve runs a handler per request: while one invocation waits at an
\* await, the steps of another one run.  The invocation that was running is
\* set aside in other, and the one that was set aside goes on.
Interleave ==
    /\ pc # "idle" \/ other.pc # "idle"
    /\ other' = [pc |-> pc, body |-> body, forceExecute |-> forceExecute,
                 aiConfig |-> aiConfig, schedules |-> schedules, now |-> now,
                 currentTime |-> currentTime, idx |-> idx, keyword |-> keyword,
                 results |-> results, state |-> state, calls |-> calls,
                 histLen0 |-> histLen0, response |-> response]
    /\ pc' = other.pc
    /\ body' = other.body
    /\ forceExecute' = other.forceExecute
    /\ aiConfig' = other.aiConfig
    /\ schedules' = other.schedules
    /\ now' = other.now
    /\ currentTime' = other.currentTime
    /\ idx' = other.idx
    /\ keyword' = other.keyword
    /\ results' = other.results
    /\ state' = other.state
    /\ calls' = other.calls
    /\ histLen0' = other.histLen0
    /\ response' = other.response
    /\ UNCHANGED <<clock, schedule_settings, execution_history, services, clients>>

----------------------------------------------------------------------------
(* WordPressService (src/services/supabaseSchedulerService.ts) *)

\* Strings are sequences of characters.
EmptyString == <<>>
news == <<"n", "e", "w", "s">>
tech == <<"t", "e", "c", "h">>
uncategorized ==
    <<"u", "n", "c", "a", "t", "e", "g", "o", "r", "i", "z", "e", "d">>

UpperChars == <<"N", "T", "U", "F">>
LowerChars == <<"n", "t", "u", "f">>

\* String.prototype.toLowerCase
toLowerCase(str) ==
    [i \in 1..Len(str) |->
        IF \E j \in 1..Len(UpperChars) : UpperChars[j] = str[i]
        THEN LowerChars[CHOOSE j \in 1..Len(UpperChars) : UpperChars[j] = str[i]]
        ELSE str[i]]

\* categories a WordPress site may hold
Category(id, name) == [id |-> id, name |-> name]
CatUncategorized ==
    Category(1, <<"U", "n", "c", "a", "t", "e", "g", "o", "r", "i", "z", "e", "d">>)
CatNews == Category(5, <<"N", "e", "w", "s">>)
CatNewsFlash == Category(7, <<"N", "e", "w", "s", " ", "F", "l", "a", "s", "h">>)
CatTech == Category(9, <<"T", "e", "c", "h">>)

\* the answer to a GET: the request failed (no answer or a non-2xx status, on
\* which axios throws), or it returned a list of categories
Failed == [ok |-> FALSE, data |-> <<>>]
Found(list) == [ok |-> TRUE, data |-> list]

CategoryIdentifiers == {news, tech, uncategorized}

\* the answers a site can give to ?slug=identifier and to ?search=identifier
SlugAnswers(identifier) ==
    IF identifier = news THEN {Failed, Found(<<>>), Found(<<CatNews>>)}
    ELSE IF identifier = tech THEN {Found(<<>>), Found(<<CatTech>>)}
    ELSE {Failed, Found(<<>>), Found(<<CatUncategorized>>)}

SearchAnswers(identifier) ==
    IF identifier = news
    THEN {Failed, Found(<<>>), Found(<<CatNews>>), Found(<<CatNewsFlash>>),
          Found(<<CatNewsFlash, CatNews>>)}
    ELSE IF identifier = tech THEN {Found(<<>>), Found(<<CatTech>>)}
    ELSE {Failed, Found(<<>>), Found(<<CatUncategorized>>)}

Sites ==
    {[slug |-> sl, search |-> se] :
        sl \in {f \in [CategoryIdentifiers -> UNION {SlugAnswers(c) : c \in CategoryIdentifiers}] :
                   \A c \in CategoryIdentifiers : f[c] \in SlugAnswers(c)},
        se \in {f \in [CategoryIdentifiers -> UNION {SearchAnswers(c) : c \in CategoryIdentifiers}] :
                   \A c \in CategoryIdentifiers : f[c] \in SearchAnswers(c)}}

\* the answer to the create-post request: an HTTP status (0: no answer at all)
\* and the id of the post in the body
PostAnswer(status, id) == [status |-> status, id |-> id]
PostAnswers ==
    {PostAnswer(201, 101), PostAnswer(201, 102), PostAnswer(200, 103),
     PostAnswer(500, 0), PostAnswer(0, 0)}

\* axios rejects when there is no answer or the status is outside 200..299
AxiosRejects(answer) == answer.status < 200 \/ answer.status > 299

\* requests sent to the site
GetCategories(param, identifier) ==
    [method |-> "GET", path |-> "categories", param |-> param,
     value |-> identifier, categories |-> <<>>]
PostPosts(categoryIds) ==
    [method |-> "POST", path |-> "posts", param |-> "", value |-> <<>>,
     categories |-> categoryIds]

\* this.config: null, or the loaded configuration
NoConfig == [loaded |-> FALSE, defaultCategory |-> EmptyString]
Config(defaultCategory) == [loaded |-> TRUE, defaultCategory |-> defaultCategory]

\* table wordpress_configs: the number of rows with is_active and the
\* default_category the selected row carries (empty when it has none)
WordPressConfigs(activeRows, category) ==
    [activeRows |-> activeRows, default_category |-> category]
WordPressConfigTables ==
    {WordPressConfigs(n, c) : n \in 0..2, c \in {EmptyString, news}}

\* .eq("is_active", true).single() yields an error unless exactly one row matches
LoadFails(table) == table.activeRows # 1

\* null
Null == 0

\* variant: the first search result is taken whatever its name
findFirstCategory(config, site, categoryIdentifier) ==
    IF ~config.loaded THEN [id |-> Null, requests |-> <<>>]
    ELSE LET bySlug == site.slug[categoryIdentifier]
             bySearch == site.search[categoryIdentifier]
             slugReq == GetCategories("slug", categoryIdentifier)
             searchReq == GetCategories("search", categoryIdentifier)
         IN IF ~bySlug.ok THEN [id |-> Null, requests |-> <<slugReq>>]
            ELSE IF Len(bySlug.data) > 0
            THEN [id |-> bySlug.data[1].id, requests |-> <<slugReq>>]
            ELSE IF ~bySearch.ok
            THEN [id |-> Null, requests |-> <<slugReq, searchReq>>]
            ELSE IF Len(bySearch.data) > 0
            THEN [id |-> bySearch.data[1].id, requests |-> <<slugReq, searchReq>>]
            ELSE [id |-> Null, requests |-> <<slugReq, searchReq>>]

\* findExistingCategoryBySlugOrName: the id it returns (Null for null) and the
\* requests it sends; an exception of a request is caught and gives null
findExistingCategoryBySlugOrName(config, site, categoryIdentifier) ==
    IF ~config.loaded THEN [id |-> Null, requests |-> <<>>]
    ELSE LET bySlug == site.slug[categoryIdentifier]
             bySearch == site.search[categoryIdentifier]
             slugReq == GetCategories("slug", categoryIdentifier)
             searchReq == GetCategories("search", categoryIdentifier)
             exact == {i \in 1..Len(bySearch.data) :
                          toLowerCase(bySearch.data[i].name)
                              = toLowerCase(categoryIdentifier)}
             exactMatch == CHOOSE i \in exact : \A j \in exact : i <= j
         IN IF ~bySlug.ok THEN [id |-> Null, requests |-> <<slugReq>>]
            ELSE IF Len(bySlug.data) > 0
            THEN [id |-> bySlug.data[1].id, requests |-> <<slugReq>>]
            ELSE IF ~bySearch.ok
            THEN [id |-> Null, requests |-> <<slugReq, searchReq>>]
            ELSE IF Len(bySearch.data) > 0
            THEN [id |-> IF exact # {} THEN bySearch.data[exactMatch].id
                         ELSE bySearch.data[1].id,
                  requests |-> <<slugReq, searchReq>>]
            ELSE [id |-> Null, requests |-> <<slugReq, searchReq>>]

\* a lookup that is not made
NoLookup == [id |-> Null, requests |-> <<>>]

\* getExistingCategoryIds: the ids it returns and the requests it sends
getExistingCategoryIds(config, site, articleCategory) ==
    IF ~config.loaded THEN [ids |-> <<>>, requests |-> <<>>]
    ELSE LET default ==
                 IF config.defaultCategory # EmptyString
                 THEN findExistingCategoryBySlugOrName(config, site,
                                                       config.defaultCategory)
                 ELSE NoLookup
             ids1 == IF default.id # Null THEN <<default.id>> ELSE <<>>
             article ==
                 IF articleCategory # EmptyString
                      /\ articleCategory # config.defaultCategory
                 THEN findExistingCategoryBySlugOrName(config, site, articleCategory)
                 ELSE NoLookup
             ids2 == IF article.id # Null /\ article.id \notin Elements(ids1)
                     THEN Append(ids1, article.id) ELSE ids1
             fallback ==
                 IF Len(ids2) = 0
                 THEN findExistingCategoryBySlugOrName(config, site, uncategorized)
                 ELSE NoLookup
             ids3 == IF fallback.id # Null THEN Append(ids2, fallback.id) ELSE ids2
         IN [ids |-> ids3,
             requests |-> default.requests \o article.requests \o fallback.requests]

\* what a call of the service gave: nothing yet, a returned value, or an
\* exception (a rejected promise)
NoResult == [kind |-> "none", success |-> FALSE, wordPressId |-> 0, error |-> ""]
Thrown(msg) == [kind |-> "thrown", success |-> FALSE, wordPressId |-> 0, error |-> msg]
Returned(success, id, msg) ==
    [kind |-> "returned", success |-> success, wordPressId |-> id, error |-> msg]

\* a site without categories
EmptySite ==
    [slug |-> [c \in CategoryIdentifiers |-> Found(<<>>)],
     search |-> [c \in CategoryIdentifiers |-> Found(<<>>)]]

\* a new WordPressService() next to the table wordpress_configs and to a
\* site with its categories and its answer to a create-post request
NewWordPressService(table, site, answer) ==
    [table |-> table, site |-> site, answer |-> answer, config |-> NoConfig,
     call |-> "none", articleCategory |-> EmptyString, configBefore |-> NoConfig,
     requests |-> <<>>, categoryIds |-> <<>>, result |-> NoResult]

\* loadActiveConfig, lines 266-287: the config it leaves in this.config and
\* whether it returns or throws
loadActiveConfig(service) ==
    IF LoadFails(service.table)
    THEN [config |-> service.config, result |-> Thrown("WordPress config not found")]
    ELSE [config |-> Config(service.table.default_category),
          result |-> Returned(TRUE, 0, "")]

\* a caller (the settings page, the scheduler UI) calls loadActiveConfig
LoadActiveConfig ==
    /\ LET loaded == loadActiveConfig(wpService)
       IN wpService' = [wpService EXCEPT
                           !.call = "loadActiveConfig",
                           !.configBefore = wpService.config,
                           !.config = loaded.config,
                           !.requests = <<>>,
                           !.categoryIds = <<>>,
                           !.result = loaded.result]
    /\ UNCHANGED <<clock, schedule_settings, execution_history, locals, other,
                   aiService, clients>>

\* publishArticle, lines 308-360, for an article of the given category
PublishArticle(articleCategory) ==
    /\ LET loaded == IF ~wpService.config.loaded THEN loadActiveConfig(wpService)
                     ELSE [config |-> wpService.config,
                           result |-> Returned(TRUE, 0, "")]
           config == loaded.config
           answer == wpService.answer
           found == getExistingCategoryIds(config, wpService.site, articleCategory)
           base == [wpService EXCEPT
                       !.call = "publishArticle",
                       !.articleCategory = articleCategory,
                       !.configBefore = wpService.config,
                       !.config = config]
       IN IF loaded.result.kind = "thrown"
          THEN wpService' = [base EXCEPT !.requests = <<>>,
                                         !.categoryIds = <<>>,
                                         !.result = loaded.result]
          ELSE IF ~config.loaded
          THEN wpService' = [base EXCEPT
                                !.requests = <<>>,
                                !.categoryIds = <<>>,
                                !.result = Returned(FALSE, 0, "WordPress config not found")]
          ELSE wpService' =
                 [base EXCEPT
                     !.requests = found.requests \o <<PostPosts(found.ids)>>,
                     !.categoryIds = found.ids,
                     !.result =
                        IF AxiosRejects(answer)
                        THEN Returned(FALSE, 0, "WordPress API error")
                        ELSE IF answer.status = 201
                        THEN Returned(TRUE, answer.id, "")
                        ELSE Returned(FALSE, 0, "WordPress post failed")]
    /\ UNCHANGED <<clock, schedule_settings, execution_history, locals, other,
                   aiService, clients>>

----------------------------------------------------------------------------
(* AIService (src/services/aiService.ts, and the class of the same name at *)
(* the end of src/services/realTrendAnalysisService.ts)                     *)

Providers == {"openai", "gemini", "claude", "other", ""}
ApiKeys == {"", "key"}
Models == {"", "model"}

AIConfig(provider, apiKey, model) ==
    [present |-> TRUE, provider |-> provider, apiKey |-> apiKey, model |-> model]
\* no row in ai_configs, and this.config = null
NoAIConfigRow == [present |-> FALSE, provider |-> "", apiKey |-> "", model |-> ""]

\* the HTTP status of the provider's answer (0: the fetch is rejected)
ProviderStatuses == {200, 401, 500, 0}

\* response.ok
ResponseOk(status) == status >= 200 /\ status <= 299

NoArticle == [kind |-> "none", error |-> ""]
Article == [kind |-> "article", error |-> ""]
MockArticle == [kind |-> "mock", error |-> ""]
Failure(msg) == [kind |-> "thrown", error |-> msg]

\* callOpenAI / callGemini / callClaude: one fetch, then the answer is split
\* into title and content
callProvider(status) ==
    IF status = 0 THEN [result |-> Failure("network error"), requests |-> 1]
    ELSE IF ~ResponseOk(status) THEN [result |-> Failure("provider error"), requests |-> 1]
    ELSE [result |-> Article, requests |-> 1]

\* aiService.ts, generateArticle (lines 51-87) with the config it works on
generateArticle(config, status) ==
    IF ~config.present THEN [result |-> Failure("AI config not loaded"), requests |-> 0]
    ELSE IF config.provider = "" THEN [result |-> Failure("provider not set"), requests |-> 0]
    ELSE IF config.apiKey = "" THEN [result |-> Failure("API key not set"), requests |-> 0]
    ELSE IF config.model = "" THEN [result |-> Failure("model not set"), requests |-> 0]
    ELSE IF config.provider \in {"openai", "gemini", "claude"} THEN callProvider(status)
    ELSE [result |-> Failure("unsupported provider"), requests |-> 0]

\* realTrendAnalysisService.ts, generateArticle (lines 1341-1383): what the
\* try block does, and the catch clause that returns generateMockArticle
generateArticleTry(config, status) ==
    IF config.apiKey = "" THEN [result |-> Failure("API key not set"), requests |-> 0]
    ELSE IF config.provider \in {"openai", "gemini", "claude"} THEN callProvider(status)
    ELSE [result |-> Failure("unsupported provider"), requests |-> 0]

generateArticleWithMock(config, status) ==
    LET tried == generateArticleTry(config, status)
    IN IF tried.result.kind = "thrown"
       THEN [result |-> MockArticle, requests |-> tried.requests]
       ELSE tried

AIServiceClasses == {"aiService.ts", "realTrendAnalysisService.ts"}

\* an AIService object: the class it is of, the ai_configs row or constructor
\* argument it gets its config from, and this.config
NewAIService(class, source) ==
    [class |-> class, source |-> source,
     config |-> IF class = "aiService.ts" THEN NoAIConfigRow ELSE source,
     status |-> 0, requests |-> 0, result |-> NoArticle]

NewAIServices ==
    {NewAIService("aiService.ts", NoAIConfigRow)}
        \cup {NewAIService(class, AIConfig(provider, apiKey, model)) :
                 class \in AIServiceClasses, provider \in Providers,
                 apiKey \in ApiKeys, model \in Models}

\* a caller calls generateArticle(prompt), and the provider answers with status
CallGenerateArticle(status) ==
    /\ aiService.result.kind = "none"
    /\ LET config == IF aiService.class = "aiService.ts" /\ ~aiService.config.present
                     THEN aiService.source
                     ELSE aiService.config
           outcome == IF aiService.class = "aiService.ts"
                      THEN generateArticle(config, status)
                      ELSE generateArticleWithMock(config, status)
       IN aiService' = [aiService EXCEPT
                           !.config = config,
                           !.status = status,
                           !.requests = outcome.requests,
                           !.result = outcome.result]
    /\ UNCHANGED <<clock, schedule_settings, execution_history, locals, other,
                   wpService, clients>>

----------------------------------------------------------------------------
(* AIService.callGemini (src/services/aiService.ts) and the relay endpoint  *)
(* gemini-proxy it posts to                                                 *)

\* the longest text one of the enumerated provider answers holds
MaxText == 4

\* \s of the regular expression and the characters trim() removes
WhiteSpace == {" ", "\n", "\t", "\r"}

\* the characters of the enumerated provider answers
TextChars == {"#", " ", "\n", "a"}

ExampleText ==
    <<"#", " ", "M", "y", " ", "T", "i", "t", "l", "e", "\n", "B", "o",
      "d", "y", " ", "l", "i", "n", "e", " ", "1", "\n", "B", "o", "d",
      "y", " ", "l", "i", "n", "e", " ", "2">>

\* the texts a provider answers with
Texts ==
    UNION {[1..n -> TextChars] : n \in 0..MaxText} \cup {ExampleText}

\* variant: nothing is trimmed
noTrim(s) == s

RECURSIVE trimStart(_)
trimStart(s) ==
    IF s # <<>> /\ s[1] \in WhiteSpace THEN trimStart(Tail(s)) ELSE s

RECURSIVE trimEnd(_)
trimEnd(s) ==
    IF s # <<>> /\ s[Len(s)] \in WhiteSpace
    THEN trimEnd(SubSeq(s, 1, Len(s) - 1))
    ELSE s

\* String.prototype.trim
trim(s) == trimEnd(trimStart(s))

\* text.split("\n")
RECURSIVE splitLines(_)
splitLines(text) ==
    IF \A i \in 1..Len(text) : text[i] # "\n" THEN <<text>>
    ELSE LET p == CHOOSE i \in 1..Len(text) :
                     text[i] = "\n" /\ \A j \in 1..(i - 1) : text[j] # "\n"
         IN <<SubSeq(text, 1, p - 1)>>
                \o splitLines(SubSeq(text, p + 1, Len(text)))

\* body.join("\n")
RECURSIVE join(_)
join(lines) ==
    IF lines = <<>> THEN <<>>
    ELSE IF Len(lines) = 1 THEN lines[1]
    ELSE lines[1] \o <<"\n">> \o join(Tail(lines))

RECURSIVE skipHashes(_)
skipHashes(s) ==
    IF s # <<>> /\ s[1] = "#" THEN skipHashes(Tail(s)) ELSE s

\* title.replace(/^#+\s*/, "")
replaceHeading(title) ==
    IF title # <<>> /\ title[1] = "#" THEN trimStart(skipHashes(title))
    ELSE title

\* const [title, ...body] = text.split("\n") and the object returned
\* (callGemini 166-171, callOpenAI 226-231)
titleAndContent(text) ==
    LET lines == splitLines(text)
    IN [title |-> trim(replaceHeading(lines[1])),
        content |-> trim(join(Tail(lines)))]

\* the temperature (in tenths) and maxTokens of the active AI config
Temperatures == {3, 7}
MaxTokens == {1000, 4000}

\* the defaults of the relay
DefaultTemperature == 7
DefaultMaxOutputTokens == 4000

GeminiConfig(temperature, maxTokens) ==
    [apiKey |-> "key", model |-> "model", temperature |-> temperature,
     maxTokens |-> maxTokens]

\* the answer of the provider: its HTTP status (0: the fetch is rejected) and
\* the text of the first candidate
ProviderAnswers == [status : {200, 500, 0}, text : Texts]

\* the body callGemini posts to the relay (lines 152-160)
GeminiRequest(config) ==
    [prompt |-> "prompt", apiKey |-> config.apiKey, model |-> config.model,
     temperature |-> config.temperature, maxTokens |-> config.maxTokens]

\* body.key ?? default, for a property that may be absent
Coalesce(posted, key, default) ==
    IF key \in DOMAIN posted THEN posted[key] ELSE default

NoPayload == [sent |-> FALSE, model |-> "", temperature |-> 0,
              maxOutputTokens |-> 0]

NoRelayResponse == [status |-> 0, kind |-> "none", text |-> <<>>]

\* the relay, handler (gemini-proxy) of lines 474-526: the payload it forwards
\* to the provider and the response it returns
geminiProxy(posted, provider) ==
    IF Coalesce(posted, "apiKey", "") = ""
    THEN [payload |-> NoPayload,
          response |-> [status |-> 400, kind |-> "error", text |-> <<>>]]
    ELSE LET model == Coalesce(posted, "model", "")
             payload ==
                 [sent |-> TRUE,
                  model |-> IF model = "" THEN "gemini-2.5-flash" ELSE model,
                  temperature |->
                      Coalesce(posted, "temperature", DefaultTemperature),
                  maxOutputTokens |->
                      Coalesce(posted, "max_tokens", DefaultMaxOutputTokens)]
         IN [payload |-> payload,
             response |->
                 IF provider.status = 0 \/ ~ResponseOk(provider.status)
                 THEN [status |-> 500, kind |-> "error", text |-> <<>>]
                 ELSE [status |-> 200, kind |-> "data",
                       text |-> provider.text]]

NoTitleAndContent == [title |-> <<>>, content |-> <<>>]

\* one call of callGemini, the active config and the provider's answer
NewGemini(config, provider) ==
    [pc |-> "idle", config |-> config, provider |-> provider,
     posted |-> GeminiRequest(config), payload |-> NoPayload,
     response |-> NoRelayResponse, result |-> "none",
     article |-> NoTitleAndContent]

QuietGemini ==
    NewGemini(GeminiConfig(DefaultTemperature, DefaultMaxOutputTokens),
              [status |-> 0, text |-> <<>>])

\* callGemini, lines 147-161: the request is posted to the relay
CallGemini ==
    /\ gemini.pc = "idle"
    /\ gemini' = [gemini EXCEPT !.pc = "relay",
                                !.posted = GeminiRequest(gemini.config)]
    /\ UNCHANGED besidesGemini

\* the relay forwards the request and answers
GeminiProxy ==
    /\ gemini.pc = "relay"
    /\ LET done == geminiProxy(gemini.posted, gemini.provider)
       IN gemini' = [gemini EXCEPT !.pc = "answered",
                                   !.payload = done.payload,
                                   !.response = done.response]
    /\ UNCHANGED besidesGemini

\* callGemini, lines 163-171: the response is read and split
GeminiAnswered ==
    /\ gemini.pc = "answered"
    /\ IF ~ResponseOk(gemini.response.status)
       THEN gemini' = [gemini EXCEPT !.pc = "done", !.result = "thrown"]
       ELSE gemini' = [gemini EXCEPT
                          !.pc = "done",
                          !.result = "article",
                          !.article = titleAndContent(gemini.response.text)]
    /\ UNCHANGED besidesGemini

----------------------------------------------------------------------------
(* The Netlify scheduler function (netlify/functions/scheduler.ts); its     *)
(* clock counts seconds                                                     *)

\* at most this many invocations of the function
MaxInvocations == 3

SecondsPerDay == 86400

\* the rows of schedule_settings with enabled = true
NetlifySchedules ==
    << [id |-> "n1", time |-> <<"0", "9", ":", "0", "0">>,
        wordpress_config_id |-> "w1"],
       [id |-> "n2", time |-> <<"0", "9", ":", "0", "2">>,
        wordpress_config_id |-> "w3"] >>

\* the instants of the invocations: around 09:00 of day 0, and 09:00 of day 1
NetlifyInstants ==
    {32309, 32310, 32370, 32400, 32460, 32490, 32491, 32520, 118800}

\* isWithinOneMinute(targetTime) at instant t (lines 16-33)
isWithinOneMinute(targetTime, t) ==
    IF targetTime = <<>> THEN FALSE
    ELSE LET fields == split(targetTime)
             target == Add((t \div SecondsPerDay) * SecondsPerDay,
                           Add(Mul(NumberAt(fields, 1), 3600),
                               Mul(NumberAt(fields, 2), 60)))
             diff == MathAbs(Sub(t, target))
         IN diff # NaN /\ diff <= 90

\* what the calls of one pass of the loop do: the wordpress_configs query
\* finds the config or not, generateArticle returns or throws, the category
\* requests return an id or nothing (0), the create-post request is answered
\* with success or not, the insert into articles succeeds or not
NetlifyOutcomes ==
    [config : BOOLEAN, article : BOOLEAN, slug : {0, 5}, search : {0, 7},
     post : BOOLEAN, insert : BOOLEAN]

\* postToWordPress, lines 40-69: the categories of the request body
categoryIds(category, outcome) ==
    IF category = <<>> THEN <<>>
    ELSE IF outcome.slug # 0 THEN <<outcome.slug>>
    ELSE IF outcome.search # 0 THEN <<outcome.search>>
    ELSE <<>>

NewNetlify ==
    [now |-> 0, invocations |-> 0, posts |-> <<>>, articles |-> 0,
     statusCode |-> 0]

\* the first schedule of the loop that is inside its window at t, 0 if none
FirstInWindow(t) ==
    LET inside == {i \in 1..Len(NetlifySchedules) :
                      isWithinOneMinute(NetlifySchedules[i].time, t)}
    IN IF inside = {} THEN 0 ELSE CHOOSE i \in inside : \A j \in inside : i <= j

\* handler, lines 89-178, invoked at instant t: the schedule query, then the
\* loop, which ends with the first schedule that is published (line 169), and
\* the catch clause of line 174
NetlifyHandler(t, scheduleError, outcome) ==
    /\ netlify.invocations < MaxInvocations
    /\ t >= netlify.now
    /\ LET i == FirstInWindow(t)
           started == [netlify EXCEPT !.now = t, !.invocations = @ + 1]
       IN IF scheduleError
          THEN netlify' = [started EXCEPT !.statusCode = 500]
          ELSE IF i = 0 \/ ~outcome.config
          THEN netlify' = [started EXCEPT !.statusCode = 200]
          ELSE IF ~outcome.article
          THEN netlify' = [started EXCEPT !.statusCode = 500]
          ELSE LET s == NetlifySchedules[i]
                   request ==
                       [schedule |-> s.id, at |-> t,
                        categories |->
                            categoryIds(CategoryOf(s.wordpress_config_id),
                                        outcome),
                        created |-> outcome.post]
               IN IF ~outcome.post
                  THEN netlify' = [started EXCEPT
                                      !.posts = Append(@, request),
                                      !.statusCode = 500]
                  ELSE IF ~outcome.insert
                  THEN netlify' = [started EXCEPT
                                      !.posts = Append(@, request),
                                      !.statusCode = 500]
                  ELSE netlify' = [started EXCEPT
                                      !.posts = Append(@, request),
                                      !.articles = @ + 1,
                                      !.statusCode = 200]
    /\ UNCHANGED besidesNetlify

----------------------------------------------------------------------------
(* The WordPress configs: WordPressConfigComponent and ScheduleEditor        *)
(* (components), the store actions (store/useAppStore.ts) and the saves of   *)
(* SupabaseSchedulerService (services/supabaseSchedulerService.ts)           *)

\* at most this many operations of the user
MaxOperations == 3

\* the ids `wp-${Date.now()}` of the configs, in the order they are given out
ConfigIds == <<"c1", "c2">>

StoredConfig(id, isActive) == [id |-> id, isActive |-> isActive]

\* a call of saveWordPressConfig(config) or deleteWordPressConfig(id) that
\* has been started, and the request it is about to send
SaveCall(config) ==
    [call |-> "save", id |-> config.id, isActive |-> config.isActive,
     pc |-> "upsert", existing |-> FALSE]
DeleteCall(id) ==
    [call |-> "delete", id |-> id, isActive |-> FALSE, pc |-> "delete",
     existing |-> FALSE]

NoOperation == [op |-> "none", id |-> ""]

\* an empty store and empty tables: per config id, its row of
\* wordpress_configs and the number of its rows in schedule_settings
NewStore ==
    [wordPressConfigs |-> <<>>,
     wordpress_configs |-> [c \in Elements(ConfigIds) |-> "absent"],
     schedule_settings |-> [c \in Elements(ConfigIds) |-> 0],
     pending |-> <<>>, operations |-> 0, added |-> 0, last |-> NoOperation]

StoredIds(st) == {st.wordPressConfigs[i].id : i \in 1..Len(st.wordPressConfigs)}

\* addWordPressConfig (useAppStore.ts 76-83): the set, and the save it starts
addWordPressConfig(st, config) ==
    [st EXCEPT !.wordPressConfigs = Append(@, config),
               !.pending = Append(@, SaveCall(config))]

\* updateWordPressConfig (useAppStore.ts 85-99): updates holds isActive, or
\* scheduleSettings, which the model does not store
updateWordPressConfig(st, id, updates) ==
    LET merged ==
            [i \in 1..Len(st.wordPressConfigs) |->
                IF st.wordPressConfigs[i].id = id /\ "isActive" \in DOMAIN updates
                THEN StoredConfig(id, updates.isActive)
                ELSE st.wordPressConfigs[i]]
        found == SelectSeq(merged, LAMBDA c : c.id = id)
    IN [st EXCEPT !.wordPressConfigs = merged,
                  !.pending = IF found = <<>> THEN @
                              ELSE Append(@, SaveCall(found[1]))]

\* deleteWordPressConfig (useAppStore.ts 101-110)
deleteWordPressConfig(st, id) ==
    [st EXCEPT !.wordPressConfigs = SelectSeq(@, LAMBDA c : c.id # id),
               !.pending = Append(@, DeleteCall(id))]

\* (wordPressConfigs || []).forEach(config =>
\*     updateWordPressConfig(config.id, { isActive: false }))
RECURSIVE deactivateAll(_, _)
deactivateAll(st, ids) ==
    IF ids = <<>> THEN st
    ELSE deactivateAll(updateWordPressConfig(st, Head(ids), [isActive |-> FALSE]),
                       Tail(ids))

Operation(st, op, id) ==
    [st EXCEPT !.operations = @ + 1, !.last = [op |-> op, id |-> id]]

\* handleAddConfig (part_004 21-52), with the required fields filled in
HandleAddConfig ==
    /\ store.operations < MaxOperations
    /\ store.added < Len(ConfigIds)
    /\ LET config == StoredConfig(ConfigIds[store.added + 1],
                                  Len(store.wordPressConfigs) = 0)
           st == [store EXCEPT !.added = @ + 1]
       IN store' = Operation(addWordPressConfig(st, config), "add", config.id)
    /\ UNCHANGED besidesStore

\* handleSetActive (part_004 72-81); the button is shown for configs that
\* are not active (line 284)
HandleSetActive(configId) ==
    /\ store.operations < MaxOperations
    /\ \E i \in 1..Len(store.wordPressConfigs) :
         /\ store.wordPressConfigs[i].id = configId
         /\ ~store.wordPressConfigs[i].isActive
    /\ LET ids == [i \in 1..Len(store.wordPressConfigs) |->
                      store.wordPressConfigs[i].id]
           deactivated == deactivateAll(store, ids)
       IN store' = Operation(updateWordPressConfig(deactivated, configId,
                                                   [isActive |-> TRUE]),
                             "setActive", configId)
    /\ UNCHANGED besidesStore

\* handleDeleteConfig (part_004 83-88), confirmed by the user
HandleDeleteConfig(configId) ==
    /\ store.operations < MaxOperations
    /\ configId \in StoredIds(store)
    /\ store' = Operation(deleteWordPressConfig(store, configId),
                          "delete", configId)
    /\ UNCHANGED besidesStore

\* handleAddKeyword (part_004 468-485) with a new keyword
HandleAddKeyword(configId) ==
    /\ store.operations < MaxOperations
    /\ configId \in StoredIds(store)
    /\ store' = Operation(updateWordPressConfig(store, configId,
                                                [scheduleSettings |-> TRUE]),
                          "addKeyword", configId)
    /\ UNCHANGED besidesStore

RemoveAt(seq, i) == SubSeq(seq, 1, i - 1) \o SubSeq(seq, i + 1, Len(seq))

\* saveWordPressConfig, lines 12-25: the upsert arrives at the table
Upsert(i) ==
    /\ i \in 1..Len(store.pending)
    /\ store.pending[i].pc = "upsert"
    /\ store' = [store EXCEPT
                    !.wordpress_configs[store.pending[i].id] =
                        IF store.pending[i].isActive THEN "active"
                        ELSE "inactive",
                    !.pending[i].pc = "select"]
    /\ UNCHANGED besidesStore

\* saveScheduleSettings, lines 42-46: maybeSingle() gives the row when there
\* is exactly one, and no data otherwise
SelectExisting(i) ==
    /\ i \in 1..Len(store.pending)
    /\ store.pending[i].pc = "select"
    /\ store' = [store EXCEPT
                    !.pending[i].existing =
                        store.schedule_settings[store.pending[i].id] = 1,
                    !.pending[i].pc = "write"]
    /\ UNCHANGED besidesStore

\* saveScheduleSettings, lines 57-76: the update or the insert
WriteSchedule(i) ==
    /\ i \in 1..Len(store.pending)
    /\ store.pending[i].pc = "write"
    /\ store' = [store EXCEPT
                    !.schedule_settings[store.pending[i].id] =
                        IF store.pending[i].existing THEN @ ELSE @ + 1,
                    !.pending = RemoveAt(@, i)]
    /\ UNCHANGED besidesStore

\* deleteWordPressConfig of the service, lines 115-127
DeleteRow(i) ==
    /\ i \in 1..Len(store.pending)
    /\ store.pending[i].pc = "delete"
    /\ store' = [store EXCEPT
                    !.wordpress_configs[store.pending[i].id] = "absent",
                    !.pending = RemoveAt(@, i)]
    /\ UNCHANGED besidesStore

----------------------------------------------------------------------------
(* AIGenerator: the manual publish flow (components/AIGenerator.tsx) *)

\* at most this many articles are published by hand
MaxArticles == 3

\* the outcomes of wordPressService.publishArticle(article, publishStatus):
\* {success: true, wordPressId}, {success: false, error}, or an exception
PublishResults ==
    {[kind |-> "returned", success |-> TRUE, wordPressId |-> 101],
     [kind |-> "returned", success |-> TRUE, wordPressId |-> 102],
     [kind |-> "returned", success |-> FALSE, wordPressId |-> 0],
     [kind |-> "thrown", success |-> FALSE, wordPressId |-> 0]}

\* an article of the store; wordPressId 0 stands for an absent property
StoredArticle(id, status, wordPressId) ==
    [id |-> id, status |-> status, wordPressId |-> wordPressId]

\* addArticle of the store (useAppStore.ts 46-52)
addArticle(articles, article) == <<article>> \o articles

\* updateArticle of the store (useAppStore.ts 54-64)
updateArticle(articles, id, status, wordPressId) ==
    [i \in 1..Len(articles) |->
        IF articles[i].id = id
        THEN StoredArticle(id, status, wordPressId)
        ELSE articles[i]]

\* the component before any article was published by hand
NewGenerator ==
    [articles |-> <<>>, isPublishing |-> FALSE, article |-> 0,
     publishStatus |-> "publish", flows |-> 0, finished |-> <<>>]

\* handlePublishToWordPress, lines 887-924: up to the await of publishArticle.
\* Without a generated article or a WordPress config it returns at once.
HandlePublishToWordPress(hasArticle, hasConfig, publishStatus) ==
    /\ ~generator.isPublishing
    /\ generator.flows < MaxArticles
    /\ IF ~hasArticle \/ ~hasConfig
       THEN generator' = [generator EXCEPT !.flows = @ + 1]
       ELSE LET id == generator.flows + 1
            IN generator' =
                 [generator EXCEPT
                     !.flows = @ + 1,
                     !.isPublishing = TRUE,
                     !.article = id,
                     !.publishStatus = publishStatus,
                     !.articles = addArticle(@, StoredArticle(id, "draft", 0))]
    /\ UNCHANGED besidesGenerator

\* handlePublishToWordPress, lines 924-971: publishArticle has settled
PublishSettled(result) ==
    /\ generator.isPublishing
    /\ LET id == generator.article
           updated ==
               IF result.kind = "thrown" THEN generator.articles
               ELSE IF result.success
               THEN updateArticle(generator.articles, id,
                                  IF generator.publishStatus = "publish"
                                  THEN "published" ELSE "draft",
                                  result.wordPressId)
               ELSE updateArticle(generator.articles, id, "failed", 0)
       IN generator' =
            [generator EXCEPT
                !.isPublishing = FALSE,
                !.articles = updated,
                !.finished = Append(@, [id |-> id, result |-> result])]
    /\ UNCHANGED besidesGenerator

----------------------------------------------------------------------------
(* Specifications *)

\* the components nobody uses
QuietClients ==
    /\ generator = NewGenerator
    /\ gemini = QuietGemini
    /\ netlify = NewNetlify
    /\ store = NewStore

\* no second invocation, and services nobody calls
Alone ==
    /\ other = IdleInvocation
    /\ wpService = NewWordPressService(WordPressConfigs(1, EmptyString),
                                       EmptySite, PostAnswer(0, 0))
    /\ aiService = NewAIService("aiService.ts", NoAIConfigRow)
    /\ QuietClients

\* Serial invocations in which every external call may fail

Init == InitWith({"daily"}, {<<"A", "B">>, <<>>}) /\ Alone

Next ==
    \/ \E t \in Instants : Elapse(t)
    \/ \E b \in Bodies, ai \in AIConfigs, schedError \in BOOLEAN, t \in Instants :
         Handler(b, ai, schedError, t)
    \/ CheckSchedule
    \/ SelectKeyword
    \/ \E outcome \in LLMOutcomes : GenerateTrendTitle(outcome)
    \/ \E outcome \in LLMOutcomes : GenerateArticle(outcome)
    \/ \E outcome \in PublishOutcomes : PublishToWordPress(outcome)
    \/ \E ok \in BOOLEAN : InsertHistory(ok)
    \/ Respond

Spec == Init /\ [][Next]_vars

\* Serial invocations over the instants of the due-time evaluation, for every
\* frequency of schedule s1, in which the external calls succeed
InitTime == InitWith(Frequencies, {<<"A", "B">>}) /\ Alone

NextTime ==
    \/ \E t \in TimeInstants(schedule_settings[1].frequency) : Elapse(t)
    \/ \E b \in Bodies, ai \in TimeAIConfigs, schedError \in BOOLEAN,
          t \in TimeInstants(schedule_settings[1].frequency) :
         Handler(b, ai, schedError, t)
    \/ CheckSchedule
    \/ SelectKeyword
    \/ GenerateTrendTitle("ok")
    \/ GenerateArticle("ok")
    \/ PublishToWordPress("created")
    \/ InsertHistory(TRUE)
    \/ Respond

SpecTime == InitTime /\ [][NextTime]_vars

\* Serial invocations in which the time of schedule s1 is no HH:MM string:
\* "0900", "ab:cd", "9:0x", "" and "25:00"
MalformedTimes ==
    {<<"0", "9", "0", "0">>, <<"a", "b", ":", "c", "d">>, <<"9", ":", "0", "x">>,
     <<>>, <<"2", "5", ":", "0", "0">>}

InitMalformed == InitSchedules({"daily"}, {<<"A", "B">>}, MalformedTimes) /\ Alone

SpecMalformed == InitMalformed /\ [][Next]_vars

\* Two invocations of the handler that overlap, in which the LLM calls and the
\* history insert succeed
OverlapInstants == {545, 546}

InitOverlap == InitWith({"daily"}, {<<"A", "B">>}) /\ Alone

NextOverlap ==
    \/ \E t \in OverlapInstants : Elapse(t)
    \/ \E b \in {NoBody, TriggerBody(FALSE)}, t \in OverlapInstants :
         Handler(b, "gemini", FALSE, t)
    \/ CheckSchedule
    \/ SelectKeyword
    \/ GenerateTrendTitle("ok")
    \/ GenerateArticle("ok")
    \/ \E outcome \in PublishOutcomes : PublishToWordPress(outcome)
    \/ InsertHistory(TRUE)
    \/ Respond
    \/ Interleave

SpecOverlap == InitOverlap /\ [][NextOverlap]_vars

\* Calls of a WordPressService object
InitWordPressService ==
    /\ InitWith({"daily"}, {<<"A", "B">>})
    /\ other = IdleInvocation
    /\ \E table \in WordPressConfigTables, site \in Sites, answer \in PostAnswers :
         wpService = NewWordPressService(table, site, answer)
    /\ aiService = NewAIService("aiService.ts", NoAIConfigRow)
    /\ QuietClients

NextWordPressService ==
    \/ LoadActiveConfig
    \/ \E articleCategory \in {EmptyString, news, tech} :
         PublishArticle(articleCategory)

SpecWordPressService == InitWordPressService /\ [][NextWordPressService]_vars

\* A call of generateArticle on an AIService object
InitAIService ==
    /\ InitWith({"daily"}, {<<"A", "B">>})
    /\ other = IdleInvocation
    /\ wpService = NewWordPressService(WordPressConfigs(1, EmptyString),
                                       EmptySite, PostAnswer(0, 0))
    /\ aiService \in NewAIServices
    /\ QuietClients

NextAIService == \E status \in ProviderStatuses : CallGenerateArticle(status)

SpecAIService == InitAIService /\ [][NextAIService]_vars

\* Invocations around 09:00 of later days, after schedule s1 (09:00) was
\* executed on day 0 at one of 08:55 .. 09:05
NominalDays(frequency) ==
    CASE frequency = "daily" -> 1
      [] frequency = "weekly" -> 7
      [] frequency = "biweekly" -> 14
      [] frequency = "monthly" -> 30

MinutesPerDay == 1440

\* the offsets from 09:00 taken: both ends of the window, and two
\* neighbouring minutes
JitterOffsets == {-5, -4, 0, 5}

\* the first day after, the last day before the nominal day, and that day
JitterDays(frequency) ==
    {d \in {1, NominalDays(frequency) - 1, NominalDays(frequency)} : d >= 1}

JitterInstants(frequency) ==
    {d * MinutesPerDay + 540 + w : d \in JitterDays(frequency), w \in JitterOffsets}

\* the handler before its first invocation
IdleHandler ==
    /\ pc = "idle"
    /\ body = NoBody
    /\ forceExecute = FALSE
    /\ aiConfig = NoAIConfig
    /\ schedules = <<>>
    /\ now = 0
    /\ currentTime = <<>>
    /\ idx = 1
    /\ keyword = Undefined
    /\ results = <<>>
    /\ state = [s \in ScheduleIds |-> "PENDING"]
    /\ calls = [s \in ScheduleIds |-> NoCalls]
    /\ histLen0 = 0
    /\ response = NoResponse

InitJitter ==
    /\ \E f \in Frequencies, e \in -5..5 :
         /\ schedule_settings =
               << Schedule("s1", "w1", TRUE, f, <<"0", "9", ":", "0", "0">>,
                           <<"A", "B", "C">>),
                  Schedule("s2", "w2", FALSE, "daily",
                           <<"0", "9", ":", "0", "0">>, <<"A">>),
                  Schedule("s3", "w3", FALSE, "daily",
                           <<"0", "9", ":", "0", "5">>, <<"C">>) >>
         /\ execution_history =
               <<HistoryRow(schedule_settings[1], "A", 540 + e)>>
         /\ clock = 540 + e
    /\ IdleHandler
    /\ Alone

NextJitter ==
    \/ \E t \in JitterInstants(schedule_settings[1].frequency) : Elapse(t)
    \/ \E b \in {NoBody}, ai \in {"gemini"}, schedError \in {FALSE},
          t \in JitterInstants(schedule_settings[1].frequency) :
         Handler(b, ai, schedError, t)
    \/ CheckSchedule
    \/ SelectKeyword
    \/ GenerateTrendTitle("ok")
    \/ GenerateArticle("ok")
    \/ PublishToWordPress("created")
    \/ InsertHistory(TRUE)
    \/ Respond

SpecJitter == InitJitter /\ [][NextJitter]_vars

\* the scheduler and the services at rest
QuietBackend ==
    /\ InitWith({"daily"}, {<<"A", "B">>})
    /\ other = IdleInvocation
    /\ wpService = NewWordPressService(WordPressConfigs(1, EmptyString),
                                       EmptySite, PostAnswer(0, 0))
    /\ aiService = NewAIService("aiService.ts", NoAIConfigRow)

\* Articles published by hand, one after the other
InitGenerator ==
    /\ QuietBackend
    /\ generator = NewGenerator
    /\ gemini = QuietGemini
    /\ netlify = NewNetlify
    /\ store = NewStore

NextGenerator ==
    \/ \E hasArticle \in BOOLEAN, hasConfig \in BOOLEAN,
          publishStatus \in {"publish", "draft"} :
         HandlePublishToWordPress(hasArticle, hasConfig, publishStatus)
    \/ \E result \in PublishResults : PublishSettled(result)

SpecGenerator == InitGenerator /\ [][NextGenerator]_vars

\* One call of callGemini, for every config and every answer of the provider
InitGemini ==
    /\ QuietBackend
    /\ generator = NewGenerator
    /\ netlify = NewNetlify
    /\ store = NewStore
    /\ \E temperature \in Temperatures, maxTokens \in MaxTokens,
          provider \in ProviderAnswers :
         gemini = NewGemini(GeminiConfig(temperature, maxTokens), provider)

NextGemini ==
    \/ CallGemini
    \/ GeminiProxy
    \/ GeminiAnswered

SpecGemini == InitGemini /\ [][NextGemini]_vars

\* Serial invocations of the Netlify scheduler function
InitNetlify ==
    /\ QuietBackend
    /\ generator = NewGenerator
    /\ gemini = QuietGemini
    /\ netlify = NewNetlify
    /\ store = NewStore

NextNetlify ==
    \E t \in NetlifyInstants, scheduleError \in BOOLEAN,
       outcome \in NetlifyOutcomes :
        NetlifyHandler(t, scheduleError, outcome)

SpecNetlify == InitNetlify /\ [][NextNetlify]_vars

\* The user works on the WordPress configs while the saves are in flight
InitStore ==
    /\ QuietBackend
    /\ generator = NewGenerator
    /\ gemini = QuietGemini
    /\ netlify = NewNetlify
    /\ store = NewStore

\* the saves in flight, and more than enough positions for them
Positions == 1..(MaxOperations * (Len(ConfigIds) + 1))

NextStore ==
    \/ HandleAddConfig
    \/ \E configId \in Elements(ConfigIds) : HandleSetActive(configId)
    \/ \E configId \in Elements(ConfigIds) : HandleDeleteConfig(configId)
    \/ \E configId \in Elements(ConfigIds) : HandleAddKeyword(configId)
    \/ \E i \in Positions : Upsert(i)
    \/ \E i \in Positions : SelectExisting(i)
    \/ \E i \in Positions : WriteSchedule(i)
    \/ \E i \in Positions : DeleteRow(i)

SpecStore == InitStore /\ [][NextStore]_vars

----------------------------------------------------------------------------
(* Properties *)

\* the invocation has returned the response of lines 127-135
Responded == pc = "idle" /\ response.kind = "run"

\* an invocation has got as far as the schedule loop
InRun == pc # "idle" \/ response.kind = "run"

\* the rows appended since the invocation began
NewRows == SubSeq(execution_history, histLen0 + 1, Len(execution_history))

\* the rows of schedule sid that existed when the invocation began
RowsAtStart(sid) == RowsOf(sid, SubSeq(execution_history, 1, histLen0))

EntriesOf(wpId, res) == SelectSeq(res, LAMBDA e : e.wordpress_config_id = wpId)

KeywordsUsed(rows) == {rows[i].keyword_used : i \in 1..Len(rows)}

Terminal == {"SKIPPED", "FAILED", "DONE"}

\* no keyword selection, LLM call, WordPress request, history write or
\* result entry was made for schedule r
NoSideEffects(r) ==
    /\ calls[r.id].select = 0
    /\ calls[r.id].title = 0
    /\ calls[r.id].article = 0
    /\ calls[r.id].llm = 0
    /\ calls[r.id].wp = 0
    /\ calls[r.id].insert = 0
    /\ Len(RowsOf(r.id, NewRows)) = 0
    /\ Len(EntriesOf(r.wordpress_config_id, results)) = 0

\* minute of the day of an instant, and of a well-formed "HH:MM" string,
\* read directly off its digits
MinuteOfDay(t) == t % 1440
MinutesOfHHMM(str) ==
    (10 * DigitValue(str[1]) + DigitValue(str[2])) * 60
        + 10 * DigitValue(str[4]) + DigitValue(str[5])
Distance(a, b) == IF a >= b THEN a - b ELSE b - a

\* the minimum hours of the frequency table
MinHours(frequency) ==
    CASE frequency = "daily" -> 23
      [] frequency = "weekly" -> 156
      [] frequency = "biweekly" -> 312
      [] frequency = "monthly" -> 696

LatestOf(rows) ==
    CHOOSE t \in {rows[i].executed_at : i \in 1..Len(rows)} :
        \A i \in 1..Len(rows) : rows[i].executed_at <= t

\* C1: when the pipeline of a due schedule fails, the invocation still ends
\* with its normal success response, every active schedule has been evaluated
\* and, when due, processed, and the failed schedule has a
\* {success: false, error} entry in the results.
C1_FailureIsolated ==
    (pc = "idle" /\ response.kind # "none"
        /\ \E sid \in ScheduleIds : state[sid] = "FAILED")
    => /\ response.kind = "run"
       /\ response.status = 200
       /\ response.success
       /\ \A i \in 1..Len(schedules) :
            LET s == schedules[i]
            IN /\ state[s.id] \in Terminal
               /\ ~forceExecute => calls[s.id].evaluate = 1
               /\ state[s.id] # "SKIPPED" => calls[s.id].select = 1
               /\ state[s.id] = "FAILED" =>
                    \E j \in 1..Len(response.results) :
                        /\ response.results[j].wordpress_config_id
                               = s.wordpress_config_id
                        /\ ~response.results[j].success
                        /\ response.results[j].error # ""

\* the first schedule failed and the later one was still processed to the end
C1_Witness ==
    /\ Responded
    /\ state["s1"] = "FAILED"
    /\ state["s3"] = "DONE"

\* C2: when every external call succeeds, a due schedule ends DONE after
\* exactly one keyword selection (a keyword of its pool), one generateArticle
\* call, one WordPress request and exactly one appended history row, with
\* status success and the selected keyword.
C2_OneRunOneRow ==
    Responded =>
        \A i \in 1..Len(schedules) :
            LET s == schedules[i]
                new == RowsOf(s.id, NewRows)
                entries == EntriesOf(s.wordpress_config_id, response.results)
            IN state[s.id] # "SKIPPED" =>
                 /\ state[s.id] = "DONE"
                 /\ calls[s.id].select = 1
                 /\ calls[s.id].title = 1
                 /\ calls[s.id].article = 1
                 /\ calls[s.id].wp = 1
                 /\ calls[s.id].insert = 1
                 /\ Len(entries) = 1
                 /\ entries[1].success
                 /\ entries[1].keyword \in Elements(s.target_keywords)
                 /\ Len(new) = 1
                 /\ new[1].status = "success"
                 /\ new[1].keyword_used = entries[1].keyword

\* schedule s1 was due by its time with an empty history and has run
C2_Witness ==
    /\ Responded
    /\ ~forceExecute
    /\ histLen0 = 0
    /\ state["s1"] = "DONE"
    /\ Len(execution_history) >= 1

\* C3: while a keyword of the pool is missing from the schedule's history,
\* the selected keyword is a keyword of the pool that is not in the history;
\* so the first N history rows of a schedule with N distinct keywords carry
\* pairwise different keywords.
C3_NoRepeatBeforeExhaustion ==
    /\ pc \in {"title", "article", "publish", "insert"} =>
         LET s == schedules[idx]
             pool == Elements(s.target_keywords)
             used == KeywordsUsed(RowsOf(s.id, execution_history))
         IN pool \ used # {} => keyword \in pool \ used
    /\ \A r \in Elements(schedule_settings) :
         LET rows == RowsOf(r.id, execution_history)
             n == Len(r.target_keywords)
         IN Cardinality(Elements(r.target_keywords)) = n =>
              \A i, j \in 1..Len(rows) :
                  (i < j /\ j <= n) => rows[i].keyword_used # rows[j].keyword_used

\* both keywords of s1 have been used, one run each
C3_Witness ==
    KeywordsUsed(RowsOf("s1", execution_history)) = {"A", "B"}

\* C4: the selection step never changes the history, and when every keyword
\* of a non-empty pool is in the history it does not fail: it yields a
\* keyword of the pool.
C4_ResetOnExhaustion ==
    [][ (pc = "select" /\ pc' # "select") =>
          LET s == schedules[idx]
              pool == Elements(s.target_keywords)
              used == KeywordsUsed(RowsOf(s.id, execution_history))
          IN /\ execution_history' = execution_history
             /\ (pool # {} /\ pool \subseteq used) =>
                   /\ pc' = "title"
                   /\ state'[s.id] = "SELECTED"
                   /\ keyword' \in pool ]_vars

\* a keyword was selected from an exhausted pool
C4_Witness ==
    /\ pc = "title"
    /\ Elements(schedules[idx].target_keywords) # {}
    /\ Elements(schedules[idx].target_keywords)
          \subseteq KeywordsUsed(RowsOf(schedules[idx].id, execution_history))

\* C5: without forceExecute a schedule is treated as due only if the minute
\* of the day of now is at most 5 minutes from its time, boundaries included
\* (with no history it is due throughout the window); outside the window it
\* is not due whatever its history, and the history is not read.
C5_TimeWindow ==
    (InRun /\ ~forceExecute) =>
        \A i \in 1..Len(schedules) :
            LET s == schedules[i]
                d == Distance(MinuteOfDay(now), MinutesOfHHMM(s.time))
            IN state[s.id] # "PENDING" =>
                 /\ state[s.id] # "SKIPPED" => d <= 5
                 /\ d > 5 => /\ state[s.id] = "SKIPPED"
                             /\ calls[s.id].evaluate = 1
                             /\ calls[s.id].read = 0
                 /\ (d <= 5 /\ Len(RowsAtStart(s.id)) = 0) => state[s.id] # "SKIPPED"

\* s1 (09:00) was found due at 08:55, on the boundary of its window
C5_Witness ==
    /\ InRun
    /\ ~forceExecute
    /\ MinuteOfDay(now) = 535
    /\ state["s1"] \notin {"PENDING", "SKIPPED"}

\* C6: inside the window and without forceExecute, the evaluation of a
\* schedule finds it due exactly when it has no history row or the time since
\* its latest executed_at is at least 23 hours (daily), 156 (weekly),
\* 312 (biweekly), 696 (monthly).
C6_FrequencyGate ==
    [][ (pc = "loop" /\ idx <= Len(schedules)
            /\ (pc' = "select" \/ idx' = idx + 1)) =>
          LET s == schedules[idx]
              rows == RowsOf(s.id, execution_history)
              d == Distance(MinuteOfDay(now), MinutesOfHHMM(s.time))
          IN (~forceExecute /\ d <= 5) =>
               ((pc' = "select") <=>
                   (Len(rows) = 0
                      \/ clock - LatestOf(rows) >= MinHours(s.frequency) * 60)) ]_vars

\* a schedule with a history row was found due with exactly its minimum elapsed
C6_Witness ==
    /\ pc = "select"
    /\ ~forceExecute
    /\ Len(RowsOf(schedules[idx].id, execution_history)) > 0
    /\ clock - LatestOf(RowsOf(schedules[idx].id, execution_history))
          = MinHours(schedules[idx].frequency) * 60

\* C7: when the body carries forceExecute = true, every active schedule is
\* treated as due, whatever the time and its history, and shouldExecuteNow is
\* not called.
C7_ForceExecute ==
    (InRun /\ body = TriggerBody(TRUE)) =>
        /\ forceExecute
        /\ \A i \in 1..Len(schedules) :
             /\ state[schedules[i].id] # "SKIPPED"
             /\ calls[schedules[i].id].evaluate = 0
             /\ (i < idx \/ pc = "idle") => state[schedules[i].id] \in {"FAILED", "DONE"}
        /\ Responded =>
             \A r \in Elements(schedule_settings) :
                 r.is_active => state[r.id] \in {"FAILED", "DONE"}

\* a forced invocation outside every window ran s1, which had run before
C7_Witness ==
    /\ Responded
    /\ body = TriggerBody(TRUE)
    /\ Distance(MinuteOfDay(now), 540) > 10
    /\ Len(RowsAtStart("s1")) > 0
    /\ state["s1"] = "DONE"

\* C8: an inactive schedule is never evaluated and has no side effect; an
\* active schedule that is not due has none either; neither adds an entry to
\* the results.
C8_OnlyActiveAndDue ==
    \A r \in Elements(schedule_settings) :
        /\ ~r.is_active =>
             /\ state[r.id] = "PENDING"
             /\ calls[r.id] = NoCalls
             /\ NoSideEffects(r)
        /\ state[r.id] \in {"PENDING", "SKIPPED"} => NoSideEffects(r)
        /\ (InRun /\ ~forceExecute /\ state[r.id] # "PENDING"
               /\ Distance(MinuteOfDay(now), MinutesOfHHMM(r.time)) > 5)
             => NoSideEffects(r)

\* s1 was not due and s3 was: the invocation ran s3 only
C8_Witness ==
    /\ Responded
    /\ ~forceExecute
    /\ state["s1"] = "SKIPPED"
    /\ state["s3"] = "DONE"
    /\ Len(results) = 1

\* C9: every schedule that failed in an invocation has a history row with
\* status 'error' appended in that invocation.
C9_FailureRecorded ==
    Responded =>
        \A sid \in ScheduleIds :
            state[sid] = "FAILED" =>
                \E i \in 1..Len(NewRows) :
                    /\ NewRows[i].schedule_id = sid
                    /\ NewRows[i].status = "error"

\* C10: executed is the number of schedules that completed successfully.
C10_ExecutedCountsSuccesses ==
    Responded =>
        response.executed
            = Cardinality({i \in 1..Len(response.results) :
                               response.results[i].success})

\* an invocation has ended
Ended == pc = "idle" /\ response.kind # "none"

\* the invocation tried to load the active AI config (lines 58-62) and got none
AIConfigLoadFailed == body # BadBody /\ aiConfig = NoAIConfig

\* a top-level failure response: success false with a 4xx/5xx status
TopLevelFailure == ~response.success /\ response.status >= 400

\* nothing was evaluated, generated, published or written by the invocation
NothingDone ==
    /\ \A sid \in ScheduleIds : state[sid] = "PENDING" /\ calls[sid] = NoCalls
    /\ results = <<>>
    /\ Len(execution_history) = histLen0

C12_EmptyPoolFails ==
    \A i \in 1..Len(schedules) :
        LET s == schedules[i]
        IN (Len(s.target_keywords) = 0 /\ calls[s.id].select > 0) =>
             /\ state[s.id] = "FAILED"
             /\ calls[s.id].select = 1
             /\ calls[s.id].title = 0
             /\ calls[s.id].article = 0
             /\ calls[s.id].llm = 0
             /\ calls[s.id].wp = 0
             /\ calls[s.id].insert = 0
             /\ Len(RowsOf(s.id, NewRows)) = 0
             /\ Len(EntriesOf(s.wordpress_config_id, results)) = 1
             /\ ~EntriesOf(s.wordpress_config_id, results)[1].success
             /\ EntriesOf(s.wordpress_config_id, results)[1].error # ""
             /\ Responded =>
                  /\ response.success
                  /\ \A j \in 1..Len(schedules) : state[schedules[j].id] \in Terminal

\* s1 with an empty pool was due and failed, and s3 ran to the end
C12_Witness ==
    /\ Responded
    /\ Len(schedule_settings[1].target_keywords) = 0
    /\ calls["s1"].select = 1
    /\ state["s1"] = "FAILED"
    /\ state["s3"] = "DONE"

\* a well-formed HH:MM string: two digits, a colon, two digits, an hour below
\* 24 and a minute below 60
WellFormedTime(str) ==
    /\ Len(str) = 5
    /\ IsDigit(str[1]) /\ IsDigit(str[2]) /\ str[3] = ":"
    /\ IsDigit(str[4]) /\ IsDigit(str[5])
    /\ 10 * DigitValue(str[1]) + DigitValue(str[2]) <= 23
    /\ 10 * DigitValue(str[4]) + DigitValue(str[5]) <= 59

\* C13: without forceExecute, a schedule whose time is no well-formed HH:MM
\* string is never found due: it is never selected for, generated for or
\* published, and nothing is written to the history for it.
C13_MalformedTimeNeverDue ==
    (InRun /\ ~forceExecute) =>
        \A i \in 1..Len(schedules) :
            LET s == schedules[i]
            IN ~WellFormedTime(s.time) =>
                 /\ state[s.id] \in {"PENDING", "SKIPPED", "FAILED"}
                 /\ calls[s.id].select = 0
                 /\ calls[s.id].llm = 0
                 /\ calls[s.id].wp = 0
                 /\ Len(RowsOf(s.id, NewRows)) = 0

\* sequence a is a prefix of sequence b
IsPrefix(a, b) == Len(a) <= Len(b) /\ SubSeq(b, 1, Len(a)) = a

\* C14: execution_history is append-only: every step leaves the rows it holds
\* in place and unchanged and at most appends rows, so the history before an
\* invocation is a prefix of the history after it.
C14_AppendOnly ==
    /\ [](histLen0 <= Len(execution_history))
    /\ [][IsPrefix(execution_history, execution_history')]_vars

\* a later invocation has appended a row behind the row of an earlier one
C14_Witness ==
    /\ Responded
    /\ histLen0 >= 1
    /\ Len(NewRows) >= 1
    /\ NewRows[1].schedule_id = execution_history[1].schedule_id

\* C15: in an invocation, an LLM request for a schedule is made only once a
\* keyword of its pool is selected, the create-post request only once
\* generateArticle has returned, and the history row is appended only once the
\* create-post request was answered with success; a schedule that reached a
\* terminal state (SKIPPED, FAILED, DONE) stays in it, and when the invocation
\* responds every active schedule is in one.
C15_PipelineOrder ==
    /\ [](\A sid \in ScheduleIds :
             /\ calls[sid].llm > 0 => calls[sid].select = 1
             /\ calls[sid].wp <= calls[sid].articleOk
             /\ Len(RowsOf(sid, NewRows)) <= calls[sid].wpCreated
             /\ Len(RowsOf(sid, NewRows)) > 0 => state[sid] = "DONE")
    /\ [](Responded =>
             \A r \in Elements(schedule_settings) :
                 r.is_active => state[r.id] \in Terminal)
    /\ [][ pc # "idle" =>
             \A sid \in ScheduleIds :
                 /\ calls'[sid].llm > calls[sid].llm =>
                      /\ state[sid] = "SELECTED"
                      /\ keyword \in Elements(schedules[idx].target_keywords)
                 /\ calls'[sid].wp > calls[sid].wp =>
                      /\ state[sid] = "GENERATED"
                      /\ calls[sid].articleOk = 1
                 /\ Len(RowsOf(sid, execution_history'))
                        > Len(RowsOf(sid, execution_history)) =>
                      /\ state[sid] = "PUBLISHED"
                      /\ calls[sid].wpCreated = 1
                 /\ state[sid] \in Terminal => state'[sid] = state[sid] ]_vars

\* s1 went through the whole pipeline and s3 failed at the create-post request
C15_Witness ==
    /\ Responded
    /\ state["s1"] = "DONE"
    /\ Len(RowsOf("s1", NewRows)) = 1
    /\ state["s3"] = "FAILED"
    /\ calls["s3"].wp = 1

\* C16: in an invocation a schedule is evaluated at most once, each step of
\* its pipeline is made at most once (one create-post request at most), and
\* once it has failed no further call or request is made for it.
C16_NoRetry ==
    /\ [](\A sid \in ScheduleIds :
             /\ calls[sid].evaluate <= 1
             /\ calls[sid].select <= 1
             /\ calls[sid].title <= 1
             /\ calls[sid].article <= 1
             /\ calls[sid].llm <= 2
             /\ calls[sid].wp <= 1
             /\ calls[sid].insert <= 1)
    /\ [][ pc # "idle" =>
             \A sid \in ScheduleIds :
                 state[sid] = "FAILED" =>
                     /\ calls'[sid] = calls[sid]
                     /\ state'[sid] = "FAILED" ]_vars

\* s1 failed at the create-post request and the invocation went on to the end
C16_Witness ==
    /\ Responded
    /\ state["s1"] = "FAILED"
    /\ calls["s1"].wp = 1
    /\ calls["s1"].wpCreated = 0
    /\ state["s3"] \in Terminal

\* the other invocation is in executeSchedule for schedule sid: it found the
\* schedule due and has not yet appended its history row
OtherExecuting(sid) ==
    /\ other.pc \in {"select", "title", "article", "publish", "insert"}
    /\ other.schedules[other.idx].id = sid

\* C17: nothing keeps two overlapping invocations apart: when an invocation
\* without forceExecute evaluates a schedule inside its time window while the
\* other invocation is executing that schedule and no history row of the
\* schedule exists yet, the evaluation finds the schedule due as well.
C17_NoMutualExclusion ==
    [][ (/\ other' = other
         /\ pc = "loop"
         /\ idx <= Len(schedules)
         /\ (pc' # pc \/ idx' # idx)
         /\ ~forceExecute
         /\ OtherExecuting(schedules[idx].id)
         /\ Distance(MinuteOfDay(now), MinutesOfHHMM(schedules[idx].time)) <= 5
         /\ Len(RowsOf(schedules[idx].id, execution_history)) = 0)
        => /\ pc' = "select"
           /\ state'[schedules[idx].id] = "DUE" ]_vars

\* both invocations published schedule s1: two create-post requests answered
\* with success and two success rows at most a minute apart
C17_Witness ==
    /\ ~forceExecute
    /\ ~other.forceExecute
    /\ calls["s1"].wpCreated = 1
    /\ other.calls["s1"].wpCreated = 1
    /\ Len(RowsOf("s1", execution_history)) = 2
    /\ RowsOf("s1", execution_history)[2].executed_at
          - RowsOf("s1", execution_history)[1].executed_at <= 1
    /\ RowsOf("s1", execution_history)[1].status = "success"
    /\ RowsOf("s1", execution_history)[2].status = "success"

\* publishArticle was called and got as far as the category lookup
Published == wpService.call = "publishArticle" /\ wpService.config.loaded

\* the id a category string resolves to on the site (Null: to nothing): the
\* first category of that slug, else among the search results the first
\* whose name is the string up to case, else the first search result
ResolvedId(site, c) ==
    LET bySlug == site.slug[c]
        bySearch == site.search[c]
        exact == {i \in 1..Len(bySearch.data) :
                     toLowerCase(bySearch.data[i].name) = toLowerCase(c)}
    IN IF ~bySlug.ok THEN Null
       ELSE IF bySlug.data # <<>> THEN bySlug.data[1].id
       ELSE IF ~bySearch.ok \/ bySearch.data = <<>> THEN Null
       ELSE IF exact # {} THEN bySearch.data[CHOOSE i \in exact : \A j \in exact : i <= j].id
       ELSE bySearch.data[1].id

\* what the category strings of the call resolve to: the configured default
\* category and the category of the article (when it is another string)
DefaultId ==
    IF wpService.config.defaultCategory # EmptyString
    THEN ResolvedId(wpService.site, wpService.config.defaultCategory)
    ELSE Null
ArticleId ==
    IF wpService.articleCategory # EmptyString
         /\ wpService.articleCategory # wpService.config.defaultCategory
    THEN ResolvedId(wpService.site, wpService.articleCategory)
    ELSE Null

\* a lookup of 'uncategorized' was sent
TriedUncategorized ==
    \E i \in 1..Len(wpService.requests) :
        /\ wpService.requests[i].path = "categories"
        /\ wpService.requests[i].value = uncategorized

\* C18 (as stated): when the configured category resolves to nothing,
\* 'uncategorized' is tried.
C18_ConfiguredUnresolvedTriesUncategorized ==
    (/\ Published
     /\ wpService.config.defaultCategory # EmptyString
     /\ DefaultId = Null)
    => TriedUncategorized

\* C18 (amended): a category string is looked up by slug and, when that gives
\* nothing, by search, where a result whose name is the string up to case is
\* preferred to the first result.  'uncategorized' is tried exactly when
\* neither the configured category nor the category of the article resolves,
\* and when it does not resolve either the list is empty.  The lookup never
\* throws, the create-post request carries the resulting list, and no request
\* other than a GET is sent to the categories.
C18_CategoryFallback ==
    Published =>
        LET reqs == wpService.requests
            uncat == ResolvedId(wpService.site, uncategorized)
            named == (IF DefaultId # Null THEN <<DefaultId>> ELSE <<>>)
                        \o (IF ArticleId # Null /\ ArticleId # DefaultId
                            THEN <<ArticleId>> ELSE <<>>)
        IN /\ wpService.result.kind = "returned"
           /\ named # <<>> => wpService.categoryIds = named /\ ~TriedUncategorized
           /\ named = <<>> =>
                /\ TriedUncategorized
                /\ wpService.categoryIds = IF uncat # Null THEN <<uncat>> ELSE <<>>
           /\ (named = <<>> /\ uncat = 1) => wpService.categoryIds = <<1>>
           /\ \A i \in 1..Len(reqs) :
                /\ reqs[i].path = "categories" => reqs[i].method = "GET"
                /\ (reqs[i].path = "categories" /\ reqs[i].param = "search") =>
                     /\ i > 1
                     /\ reqs[i - 1] = GetCategories("slug", reqs[i].value)
                     /\ wpService.site.slug[reqs[i].value] = Found(<<>>)
                /\ reqs[i].path = "posts" <=> i = Len(reqs)
           /\ reqs[Len(reqs)] = PostPosts(wpService.categoryIds)

\* the configured category "news" resolves to nothing, the article has no
\* category of its own and 'uncategorized' resolves to id 1: the post is
\* created with categories [1]
C18_Witness ==
    /\ Published
    /\ wpService.config.defaultCategory = news
    /\ DefaultId = Null
    /\ wpService.articleCategory = EmptyString
    /\ wpService.categoryIds = <<1>>
    /\ wpService.result.success

\* the create-post requests the call sent
PostRequests ==
    {i \in 1..Len(wpService.requests) : wpService.requests[i].path = "posts"}

\* C19: publishArticle returns {success: true, wordPressId} exactly when the
\* create-post request was answered with status 201; for every other outcome
\* (another status, no answer, no WordPress config to load) it returns
\* {success: false, error} and does not throw; it sends at most one create-post
\* request.
C19_PublishArticleResult ==
    wpService.call = "publishArticle" =>
        /\ wpService.result.kind = "returned"
        /\ wpService.result.success
              <=> (PostRequests # {} /\ wpService.answer.status = 201)
        /\ wpService.result.success => wpService.result.wordPressId = wpService.answer.id
        /\ ~wpService.result.success => wpService.result.error # ""
        /\ Cardinality(PostRequests) <= 1

\* generateArticle gave the caller an article, a real one or a substitute
ArticleReturned == aiService.result.kind \in {"article", "mock"}

\* C20: generateArticle returns an article only when the API key is not
\* empty, the provider is openai, gemini or claude and the provider answered
\* with a success status.  With an empty API key it fails without a request to
\* the provider, with an unknown provider it fails (with the
\* unsupported-provider error when key and model are set), and on a
\* non-success status it fails with a provider error; in these cases no
\* article, real or substitute, is returned.
C20_GenerateArticleFailures ==
    aiService.result.kind # "none" =>
        LET config == aiService.config
            supported == config.provider \in {"openai", "gemini", "claude"}
        IN /\ ArticleReturned =>
                /\ config.apiKey # ""
                /\ supported
                /\ aiService.requests = 1
                /\ aiService.status \in 200..299
           /\ config.apiKey = "" =>
                /\ aiService.requests = 0
                /\ aiService.result.kind = "thrown"
           /\ ~supported =>
                /\ aiService.requests = 0
                /\ aiService.result.kind = "thrown"
                /\ (config.apiKey # "" /\ config.model # "" /\ config.provider # "") =>
                     aiService.result.error = "unsupported provider"
           /\ (aiService.requests = 1 /\ aiService.status \notin 200..299) =>
                /\ aiService.result.kind = "thrown"
                /\ aiService.status # 0 => aiService.result.error = "provider error"

\* the article of a finished publish flow, as the store holds it
ArticleOf(id) ==
    LET found == SelectSeq(generator.articles, LAMBDA a : a.id = id)
    IN IF found = <<>> THEN StoredArticle(0, "removed", 0) ELSE found[1]

\* C21: an article is in the store with status draft while its publish
\* attempt runs; once the attempt has finished, whatever its outcome, the
\* article is still in the store with status published or failed, and a
\* published article carries the WordPress post id.
C21_ArticleLifecycle ==
    /\ generator.isPublishing => ArticleOf(generator.article).status = "draft"
    /\ \A i \in 1..Len(generator.finished) :
         LET done == generator.finished[i]
             article == ArticleOf(done.id)
         IN /\ article.status \in {"published", "failed"}
            /\ article.status = "published" =>
                 /\ done.result.success
                 /\ article.wordPressId = done.result.wordPressId

\* the position of the first newline of a text, 0 when it has none
FirstNewline(text) ==
    IF \A i \in 1..Len(text) : text[i] # "\n" THEN 0
    ELSE CHOOSE i \in 1..Len(text) :
             text[i] = "\n" /\ \A j \in 1..(i - 1) : text[j] # "\n"

\* s from its first to its last character that is no white space
Trimmed(s) ==
    LET solid == {i \in 1..Len(s) : s[i] \notin WhiteSpace}
    IN IF solid = {} THEN <<>>
       ELSE SubSeq(s, CHOOSE i \in solid : \A j \in solid : i <= j,
                      CHOOSE i \in solid : \A j \in solid : i >= j)

\* s without the '#' characters it begins with and the white space after them
WithoutHeading(s) ==
    LET hashes == {k \in 0..Len(s) : \A i \in 1..k : s[i] = "#"}
        k == CHOOSE m \in hashes : \A n \in hashes : m >= n
        after == {i \in (k + 1)..Len(s) : s[i] \notin WhiteSpace}
    IN IF k = 0 THEN s
       ELSE IF after = {} THEN <<>>
       ELSE SubSeq(s, CHOOSE i \in after : \A j \in after : i <= j, Len(s))

\* C22: the article callGemini (and callOpenAI) returns is the provider text
\* split at its first newline: the title is the first line without leading
\* '#' markers and surrounding white space, the content is the trimmed
\* remainder; a text without newline gives the whole trimmed text without
\* heading markers as title and the empty string as content; the text
\* '# My Title\nBody line 1\nBody line 2' gives 'My Title' and
\* 'Body line 1\nBody line 2'.
C22_TitleContentSplit ==
    gemini.result = "article" =>
        LET text == gemini.response.text
            n == FirstNewline(text)
            firstLine == IF n = 0 THEN text ELSE SubSeq(text, 1, n - 1)
            remainder == IF n = 0 THEN <<>> ELSE SubSeq(text, n + 1, Len(text))
        IN /\ gemini.article.title = Trimmed(WithoutHeading(firstLine))
           /\ gemini.article.content = Trimmed(remainder)
           /\ n = 0 => /\ gemini.article.title = Trimmed(WithoutHeading(text))
                       /\ gemini.article.content = <<>>
           /\ text = ExampleText =>
                /\ gemini.article.title = SubSeq(ExampleText, 3, 10)
                /\ gemini.article.content = SubSeq(ExampleText, 12, 34)

\* the example of the specification was split
C22_Witness ==
    /\ gemini.result = "article"
    /\ gemini.response.text = ExampleText
    /\ gemini.article.title = <<"M", "y", " ", "T", "i", "t", "l", "e">>

\* C23: the temperature and maxTokens callGemini posts are the temperature
\* and maxOutputTokens of the request the relay forwards, and the relay
\* answers with the provider's JSON unchanged on success and with an error
\* body and HTTP 500 otherwise.
C23_RelayForwardsConfig ==
    gemini.pc \in {"answered", "done"} =>
        /\ gemini.payload.sent
        /\ gemini.payload.temperature = gemini.config.temperature
        /\ gemini.payload.maxOutputTokens = gemini.config.maxTokens
        /\ IF ResponseOk(gemini.provider.status)
           THEN /\ gemini.response.status = 200
                /\ gemini.response.kind = "data"
                /\ gemini.response.text = gemini.provider.text
           ELSE /\ gemini.response.status = 500
                /\ gemini.response.kind = "error"

\* the day an instant lies on
DayOf(t) == t \div MinutesPerDay

\* C24: when the latest execution of a schedule was recorded from 5 minutes
\* before to 5 minutes after its time, an evaluation inside the window finds
\* it due on the day one nominal interval later (1, 7, 14, 30 days) and not
\* due on the days in between.
C24_JitterTolerated ==
    [][ (pc = "loop" /\ idx <= Len(schedules) /\ ~forceExecute
            /\ (pc' = "select" \/ idx' = idx + 1)) =>
          LET s == schedules[idx]
              rows == RowsOf(s.id, execution_history)
              configured == MinutesOfHHMM(s.time)
          IN (/\ Len(rows) > 0
              /\ Distance(MinuteOfDay(LatestOf(rows)), configured) <= 5
              /\ Distance(MinuteOfDay(now), configured) <= 5) =>
               LET days == DayOf(clock) - DayOf(LatestOf(rows))
               IN /\ days = NominalDays(s.frequency) => pc' = "select"
                  /\ (0 < days /\ days < NominalDays(s.frequency)) =>
                        pc' = "loop" ]_vars

\* C25: the categories of every create-post request of the scheduler hold
\* only ids that the site's category lookup returned for the configured
\* category, or the list is empty.
C25_CategoryNeverAnId ==
    \A r \in Elements(schedule_settings) :
        \A i \in 1..Len(calls[r.id].categories) :
            calls[r.id].categories[i] \in LookedUpIds(r.wordpress_config_id)

\* C27: under serial invocations of the Netlify scheduler function, no
\* schedule is published twice for the scheduled time of one day: two
\* create-post requests that were answered with success and are of the same
\* schedule are of different days.
C27_PublishedOncePerDay ==
    \A i, j \in 1..Len(netlify.posts) :
        (/\ i < j
         /\ netlify.posts[i].created
         /\ netlify.posts[j].created
         /\ netlify.posts[i].schedule = netlify.posts[j].schedule)
        => netlify.posts[i].at \div SecondsPerDay
              # netlify.posts[j].at \div SecondsPerDay

\* C26: under serial invocations without forceExecute in which every history
\* insert succeeds, any two success rows of a schedule are at least its
\* frequency minimum (23 hours for daily) apart, however many invocations
\* fall inside one window.
C26_OncePerDueWindow ==
    \A r \in Elements(schedule_settings) :
        LET rows == RowsOf(r.id, execution_history)
        IN \A i, j \in 1..Len(rows) :
               i < j => rows[j].executed_at - rows[i].executed_at
                            >= MinHours(r.frequency) * 60

\* s1 was executed in a window, and a later invocation inside the same window
\* has not executed it again
C26_Witness ==
    /\ Responded
    /\ ~forceExecute
    /\ state["s1"] = "SKIPPED"
    /\ Len(RowsOf("s1", execution_history)) = 2
    /\ Distance(MinuteOfDay(now), 540) <= 5
    /\ DayOf(now) = DayOf(LatestOf(RowsOf("s1", execution_history)))
    /\ now > LatestOf(RowsOf("s1", execution_history))

\* C28: a schedule has a success entry in the results of an invocation only
\* if its history row was appended in that invocation.
C28_SuccessMeansRecorded ==
    Responded =>
        \A i \in 1..Len(response.results) :
            response.results[i].success =>
                \E k \in 1..Len(NewRows) :
                    /\ NewRows[k].wordpress_config_id
                           = response.results[i].wordpress_config_id
                    /\ NewRows[k].status = "success"

\* C29: whatever the interleaving of the saveScheduleSettings calls, the
\* table schedule_settings holds at most one row for a WordPress config.
C29_OneSchedulePerConfig ==
    \A c \in Elements(ConfigIds) : store.schedule_settings[c] <= 1

\* the configs that are active in the store
ActiveInStore ==
    {store.wordPressConfigs[i].id :
        i \in {j \in 1..Len(store.wordPressConfigs) :
                  store.wordPressConfigs[j].isActive}}

\* C30: at most one WordPress config is active in the store; after
\* handleSetActive(c), c is the active config of the store and, once every
\* save in flight has completed, the only active row of wordpress_configs.
C30_SingleActiveConfig ==
    /\ Cardinality(ActiveInStore) <= 1
    /\ store.last.op = "setActive" =>
         /\ ActiveInStore = {store.last.id}
         /\ store.pending = <<>> =>
              \A c \in Elements(ConfigIds) :
                  store.wordpress_configs[c] = "active" <=> c = store.last.id

====
